---- MODULE Spec2Model ----
(***************************************************************************)
(* Model of the scene layout transformation engine of the FengShui backend *)
(* (app/services/usdz_optimizer.py, class USDZOptimizer).                  *)
(*                                                                         *)
(* Conventions.                                                            *)
(*  - Lengths and coordinates are fixed-point integers in centimetres      *)
(*    (1.0 m = 100).  The code computes in binary floating point; the      *)
(*    inputs drawn here are multiples of 10 cm and footprints are          *)
(*    multiples of 20 cm, so that margins (d/2 + extra) and separations    *)
(*    (0.55 * d) are exact.  Means are floored to the centimetre and the   *)
(*    diagonal spiral directions use cos 45 = 7071/10000.                  *)
(*    A candidate at exactly the required distance passes `dist >= sep`;   *)
(*    the floating-point code decides such a tie by its rounding.          *)
(*  - A JSON number of a proposal carries a kind: "num" (finite), "inf"    *)
(*    (1e999 parses to +Infinity), "nan", "bad" (not coercible by float()) *)
(*    or "missing" (key absent).                                           *)
(*  - Identifiers and entity names are sequences of one-character strings  *)
(*    so that lower-casing, stripping and substring tests are computed.    *)
(*  - The proposal dicts are objects the code mutates in place:            *)
(*    `suggestions` is the heap of dicts, `transformations` a list of      *)
(*    indices into it (the references the code passes around).             *)
(***************************************************************************)
EXTENDS Integers, Sequences, FiniteSets, TLC

VARIABLES
    pc,               \* position of the invocation inside _apply_transformations
    fileState,        \* the file at usdz_file_path: "valid", "empty", "notzip", "unreadable"
    archive,          \* the entries of the input archive (its bytes)
    room_request,     \* [present, objects]: the room model given by the caller
    suggestions,      \* the proposal dicts of suggestions["transformations"]
    transformations,  \* local `transformations`: indices into suggestions
    sanitizer_input,  \* the list handed to _normalize_and_spread_transformations
    input_dicts,      \* the proposal dicts as the caller passed them (before any mutation)
    workdir,          \* extracted files: entry index -> content
    floor_y,          \* self._current_floor_y  : [known, v]
    plan_bounds,      \* self._current_plan_bounds : [known, min_x, max_x, min_y, max_y]
    docs_left,        \* the text documents still to be visited by the Step 3 loop
    total_applied,    \* local total_applied
    faults,           \* which I/O operations of this run fail
    now,              \* clock value the repacker stamps entries with
    result,           \* [kind, bytes]: "none", "bytes" (returned) or "error" (raised)
    lines,            \* local `lines` of _modify_usda_file: the document being edited
    xform_blocks,     \* local xform_blocks: (def_idx, close_idx, name, uuid)
    planned_mods,     \* planned_mods still to be applied, bottom block first
    applied,          \* local `applied` of _modify_usda_file
    log,              \* one record per call of _apply_transform_to_xform
    attempt,          \* 1 in the caller's first call, 2 in its retry
    first_call,       \* what the caller keeps of its first call
    metadata,         \* analyze.py: the status file of each file_id in CACHE_METADATA_DIR
    optimized,        \* analyze.py: the file of each file_id in OPTIMIZED_DIR
    task,             \* analyze.py: how far the request and its background task have come
    answer            \* analyze.py: the last answer of get_optimized_model for each file_id

\* the locals of _modify_usda_file
docvars == << lines, xform_blocks, planned_mods, applied, log >>

\* the state of _apply_transformations that _modify_usda_file does not touch
pipevars == << fileState, archive, room_request, sanitizer_input, input_dicts, workdir,
               plan_bounds, docs_left, total_applied, faults, now, result, attempt, first_call >>

\* the caller's record of its calls
retryvars == << attempt, first_call >>

\* the state of the routes of analyze.py
webvars == << metadata, optimized, task, answer >>

vars == << pc, fileState, archive, room_request, suggestions, transformations,
           sanitizer_input, input_dicts, workdir, floor_y, plan_bounds, docs_left,
           total_applied, faults, now, result, lines, xform_blocks, planned_mods,
           applied, log, attempt, first_call, metadata, optimized, task, answer >>

(***************************************************************************)
(* Text helpers                                                            *)
(***************************************************************************)
UpperChars == << "A", "B", "C", "D", "E", "F", "G", "H", "I", "J", "K", "L", "M",
                 "N", "O", "P", "Q", "R", "S", "T", "U", "V", "W", "X", "Y", "Z" >>
LowerChars == << "a", "b", "c", "d", "e", "f", "g", "h", "i", "j", "k", "l", "m",
                 "n", "o", "p", "q", "r", "s", "t", "u", "v", "w", "x", "y", "z" >>

\* str.lower() on one character
LowerTable == [i \in 1..Len(UpperChars) |-> LowerChars[i]]
UpperIndex == [c \in {UpperChars[i] : i \in 1..Len(UpperChars)} |->
                    CHOOSE i \in 1..Len(UpperChars) : UpperChars[i] = c]
LowerChar(c) == IF c \in DOMAIN UpperIndex THEN LowerTable[UpperIndex[c]] ELSE c

\* str.lower()
LowerStr(s) == [i \in 1..Len(s) |-> LowerChar(s[i])]

\* str.strip(): leading and trailing blanks removed
StripStr(s) ==
    LET keep == {i \in 1..Len(s) : s[i] # " "}
    IN  IF keep = {} THEN << >>
        ELSE LET lo == CHOOSE i \in keep : \A j \in keep : i <= j
                 hi == CHOOSE i \in keep : \A j \in keep : j <= i
             IN  SubSeq(s, lo, hi)

\* Python `a in b` on strings
IsSubstr(a, b) ==
    \E k \in 0..(Len(b) - Len(a)) : \A i \in 1..Len(a) : b[k + i] = a[i]

\* str(obj.type).lower() over the type spellings of the room model
TypeLower(t) ==
    CASE t = "Chair" -> "chair"
      [] t = "Desk"  -> "desk"
      [] t = "Table" -> "table"
      [] OTHER       -> t

(***************************************************************************)
(* Arithmetic helpers                                                      *)
(***************************************************************************)
Max2(a, b) == IF a >= b THEN a ELSE b
Min2(a, b) == IF a <= b THEN a ELSE b

RECURSIVE SumOver(_, _)
SumOver(f, s) == IF Len(s) = 0 THEN 0 ELSE f[s[1]] + SumOver(f, Tail(s))

\* the sequence s without the elements failing Keep, order kept
RECURSIVE FilterIdx(_, _)
FilterIdx(s, keep) ==
    IF Len(s) = 0 THEN << >>
    ELSE IF s[1] \in keep THEN << s[1] >> \o FilterIdx(Tail(s), keep)
         ELSE FilterIdx(Tail(s), keep)

SetMin(S) == CHOOSE m \in S : \A n \in S : m <= n
SetMax(S) == CHOOSE m \in S : \A n \in S : n <= m

Range(s) == {s[i] : i \in 1..Len(s)}

(***************************************************************************)
(* Program constants of the sanitizer (centimetres where a length)         *)
(***************************************************************************)
Pad == 35                \* pad = 0.35
DefaultDim == 80         \* dims_by_id.get(key, (0.8, 0.8))
ExtraDesk == 25          \* extra = 0.25 for desk/table
ExtraOther == 12         \* extra = 0.12 otherwise
MinSepDim == 60          \* max(length_m, width_m, 0.6)
SepPercent == 55         \* ... * 0.55
Rings == 24              \* for ring in range(1, 25)
CollapseDivisor == 6     \* len(ts) // 6
CollapseMinOther == 4    \* obj_type not in {chair, desk} and len(ts) < 4
BucketCm == 2            \* round(x * 50): buckets of 2 cm
Cos45Num == 7071         \* math.cos(math.radians(45)), numerator over Cos45Den
Cos45Den == 10000
MaxDesks == 1            \* max_desks: int = 1
MaxChairs == 1           \* max_chairs: int = 1

NoBounds == [known |-> FALSE, min_x |-> 0, max_x |-> 0, min_y |-> 0, max_y |-> 0]
NoFloor == [known |-> FALSE, v |-> 0]
NoRoom == [present |-> FALSE, objects |-> << >>]

(***************************************************************************)
(* Room model lookups: dims_by_id, type_by_id, orig_pos_by_id              *)
(* (dicts keyed by str(obj.id).lower(); a later object overwrites)         *)
(***************************************************************************)
ObjKeys(room) ==
    IF room.present THEN {LowerStr(room.objects[i].id) : i \in 1..Len(room.objects)} ELSE {}

HasObj(room, key) == key \in ObjKeys(room)

ObjOf(room, key) ==
    LET I == {i \in 1..Len(room.objects) : LowerStr(room.objects[i].id) = key}
    IN  room.objects[SetMax(I)]

type_by_id(room, key) == IF HasObj(room, key) THEN TypeLower(ObjOf(room, key).type) ELSE ""

\* dims_by_id.get(key, (0.8, 0.8)), reduced to max(length_m, width_m)
MaxDim(room, key) ==
    IF HasObj(room, key)
    THEN Max2(ObjOf(room, key).length_m, ObjOf(room, key).width_m)
    ELSE DefaultDim

\* room_bounds: the floor-derived bounds, else the extent of the original positions padded
RoomBounds(room, pb) ==
    IF pb.known THEN pb
    ELSE IF ObjKeys(room) # {}
         THEN LET xs == {ObjOf(room, k).x : k \in ObjKeys(room)}
                  ys == {ObjOf(room, k).y : k \in ObjKeys(room)}
              IN  [known |-> TRUE,
                   min_x |-> SetMin(xs) - Pad, max_x |-> SetMax(xs) + Pad,
                   min_y |-> SetMin(ys) - Pad, max_y |-> SetMax(ys) + Pad]
         ELSE NoBounds

(***************************************************************************)
(* Step 1-2 of the sanitizer: cleaning (lines 940-972)                     *)
(***************************************************************************)
\* float(v) succeeds
Coercible(k) == k \in {"num", "nan", "inf"}

\* a validation that lets a missing coordinate through, to be read as 0 later on
ValidProposalDefaulting(d) ==
    /\ d.is_dict
    /\ StripStr(d.object_id) # << >>
    /\ d.has_pos
    /\ d.xk \in {"num", "nan", "inf", "missing"} /\ d.yk \in {"num", "nan", "inf", "missing"}

ValidProposal(d) ==
    /\ d.is_dict
    /\ StripStr(d.object_id) # << >>
    /\ d.has_pos
    /\ d.xk # "missing" /\ d.yk # "missing"
    /\ Coercible(d.xk) /\ Coercible(d.yk)

\* the in-place writes to a kept dict: rotation coerced or popped, id stripped
CleanDict(d) ==
    [d EXCEPT !.object_id = StripStr(@),
              !.rk = IF @ = "bad" THEN "missing" ELSE @]

Cleaned(D, T) == FilterIdx(T, {i \in Range(T) : ValidProposal(D[i])})

CleanAll(D, T) ==
    [i \in 1..Len(D) |-> IF i \in Range(T) /\ ValidProposal(D[i]) THEN CleanDict(D[i]) ELSE D[i]]

KeyOf(d) == LowerStr(d.object_id)

Finite(d) == d.xk = "num" /\ d.yk = "num"

(***************************************************************************)
(* Step 3: collapse detection and group move (lines 980-1022)              *)
(***************************************************************************)
\* int(round(v * 50)) for v in metres: v/2 for v in centimetres, ties to even
Bucket(v) ==
    IF v % BucketCm = 0 THEN v \div BucketCm
    ELSE LET f == (v - 1) \div BucketCm IN IF f % 2 = 0 THEN f ELSE f + 1

pos_key(d) == << Bucket(d.x), Bucket(d.y) >>

\* the types of by_type in insertion order
RECURSIVE TypesInOrder(_, _, _, _)
TypesInOrder(D, room, rest, seen) ==
    IF Len(rest) = 0 THEN << >>
    ELSE LET typ == type_by_id(room, KeyOf(D[rest[1]]))
         IN  IF typ = "" \/ typ \in seen
             THEN TypesInOrder(D, room, Tail(rest), seen)
             ELSE << typ >> \o TypesInOrder(D, room, Tail(rest), seen \cup {typ})

Members(D, room, cleaned, typ) ==
    FilterIdx(cleaned, {i \in Range(cleaned) : type_by_id(room, KeyOf(D[i])) = typ})

\* the group passes the size guards, so `uniq` is computed for it
GroupConsidered(ts, typ) ==
    /\ Len(ts) >= 2
    /\ (typ \in {"chair", "desk"} \/ Len(ts) >= CollapseMinOther)

\* int(round(nan)) raises ValueError, int(round(inf)) raises OverflowError
GroupRaises(D, ts, typ) ==
    GroupConsidered(ts, typ) /\ \E i \in Range(ts) : ~Finite(D[i])

\* a threshold that rounds the quotient up instead of down
CollapseThresholdCeil(n) == (n + CollapseDivisor - 1) \div CollapseDivisor

CollapseThreshold(n) == Max2(1, n \div CollapseDivisor)

GroupCollapses(D, ts, typ) ==
    /\ GroupConsidered(ts, typ)
    /\ \A i \in Range(ts) : Finite(D[i])
    /\ Cardinality({pos_key(D[i]) : i \in Range(ts)}) <= CollapseThreshold(Len(ts))

\* delta = mean(targets) - mean(originals), per axis
GroupDelta(D, room, ts) ==
    LET n  == Len(ts)
        tx == SumOver([i \in Range(ts) |-> D[i].x], ts) \div n
        ty == SumOver([i \in Range(ts) |-> D[i].y], ts) \div n
        ox == SumOver([i \in Range(ts) |-> ObjOf(room, KeyOf(D[i])).x], ts) \div n
        oy == SumOver([i \in Range(ts) |-> ObjOf(room, KeyOf(D[i])).y], ts) \div n
    IN  [dx |-> tx - ox, dy |-> ty - oy]

\* a group move that leaves every member at its proposed target
GroupStay(D, room, ts) == D

GroupMove(D, room, ts) ==
    LET dl == GroupDelta(D, room, ts)
    IN  [i \in 1..Len(D) |->
            IF i \in Range(ts)
            THEN [D[i] EXCEPT !.x = ObjOf(room, KeyOf(D[i])).x + dl.dx,
                              !.y = ObjOf(room, KeyOf(D[i])).y + dl.dy]
            ELSE D[i]]

RECURSIVE CollapseAll(_, _, _, _)
CollapseAll(D, room, cleaned, types) ==
    IF Len(types) = 0 THEN [dicts |-> D, raised |-> FALSE]
    ELSE LET ts == Members(D, room, cleaned, types[1])
         IN  IF GroupRaises(D, ts, types[1]) THEN [dicts |-> D, raised |-> TRUE]
             ELSE CollapseAll(IF GroupCollapses(D, ts, types[1]) THEN GroupMove(D, room, ts) ELSE D,
                              room, cleaned, Tail(types))

(***************************************************************************)
(* Step 4: clamp (lines 1024-1048)                                         *)
(***************************************************************************)
WallMargin(room, key) ==
    MaxDim(room, key) \div 2
      + (IF type_by_id(room, key) \in {"desk", "table"} THEN ExtraDesk ELSE ExtraOther)

\* min(max(v, lo), hi) on floats: nan stays nan, +inf becomes hi
ClampAxis(k, v, lo, hi) ==
    IF k = "nan" THEN [k |-> "nan", v |-> 0]
    ELSE IF k = "inf" THEN [k |-> "num", v |-> hi]
    ELSE [k |-> "num", v |-> Min2(Max2(v, lo), hi)]

Pt(d) == [xk |-> d.xk, x |-> d.x, yk |-> d.yk, y |-> d.y]

\* the clamp for an object whose wall margin is m
ClampWith(b, m, p) ==
    IF ~b.known THEN p
    ELSE LET cx == ClampAxis(p.xk, p.x, b.min_x + m, b.max_x - m)
             cy == ClampAxis(p.yk, p.y, b.min_y + m, b.max_y - m)
         IN  [xk |-> cx.k, x |-> cx.v, yk |-> cy.k, y |-> cy.v]

clamp_to_room(b, room, p, key) == ClampWith(b, WallMargin(room, key), p)

SetPt(d, p) == [d EXCEPT !.xk = p.xk, !.x = p.x, !.yk = p.yk, !.y = p.y]

ClampAll(D, room, b, cleaned) ==
    [i \in 1..Len(D) |->
        IF i \in Range(cleaned) THEN SetPt(D[i], clamp_to_room(b, room, Pt(D[i]), KeyOf(D[i])))
        ELSE D[i]]

(***************************************************************************)
(* Step 5: de-overlap with the bounded spiral search (lines 1050-1090)     *)
(***************************************************************************)
\* base_sep = max(length_m, width_m, 0.6) * 0.55
BaseSep(room, key) == (Max2(MaxDim(room, key), MinSepDim) * SepPercent) \div 100

DistSq(a, b) == (a.x - b.x) * (a.x - b.x) + (a.y - b.y) * (a.y - b.y)

\* dist(a, b) < sep ; a comparison with nan is False
Closer(a, b, sep) == Finite(a) /\ Finite(b) /\ DistSq(a, b) < sep * sep

\* dist(a, b) >= sep for a finite candidate a: the distance to a point with an
\* infinite coordinate is inf, a comparison with nan is False
AtLeast(a, b, sep) ==
    IF Finite(a) /\ Finite(b) THEN DistSq(a, b) >= sep * sep
    ELSE Finite(a) /\ (b.xk = "inf" \/ b.yk = "inf")

\* the eight directions (0, 90, 180, 270, 45, 135, 225, 315) at radius r
SpiralOffset(r, a) ==
    LET d == (r * Cos45Num) \div Cos45Den
    IN  CASE a = 1 -> << r, 0 >>
          [] a = 2 -> << 0, r >>
          [] a = 3 -> << -r, 0 >>
          [] a = 4 -> << 0, -r >>
          [] a = 5 -> << d, d >>
          [] a = 6 -> << -d, d >>
          [] a = 7 -> << -d, -d >>
          [] OTHER -> << d, -d >>

\* the n-th candidate of the search around p, clamped (n = 1 .. Rings * 8)
SpiralCandidate(b, m, base_sep, p, n) ==
    LET ring == ((n - 1) \div 8) + 1
        off  == SpiralOffset(base_sep * ring, ((n - 1) % 8) + 1)
    IN  ClampWith(b, m, [p EXCEPT !.x = @ + off[1], !.y = @ + off[2]])

\* all(dist(cand, (tx, ty)) >= max(base_sep, md) for tx, ty, md in taken)
IsFree(c, base_sep, taken) ==
    \A k \in 1..Len(taken) : AtLeast(c, taken[k].pt, Max2(base_sep, taken[k].md))

\* the index of the first free candidate of ring `ring` or a later one, 0 when the
\* search is exhausted
RECURSIVE FirstFree(_, _, _, _, _, _)
FirstFree(b, m, base_sep, p, taken, ring) ==
    IF ring > Rings THEN 0
    ELSE LET free == {n \in (8 * (ring - 1) + 1)..(8 * ring) :
                        IsFree(SpiralCandidate(b, m, base_sep, p, n), base_sep, taken)}
         IN  IF free # {} THEN SetMin(free)
             ELSE FirstFree(b, m, base_sep, p, taken, ring + 1)

\* the position accepted for one proposal, given the accepted list `taken`
PlaceOne(b, room, p, key, taken) ==
    LET base_sep == BaseSep(room, key)
        m        == WallMargin(room, key)
        collides == \E k \in 1..Len(taken) :
                        Closer(p, taken[k].pt, Max2(base_sep, taken[k].md))
        found    == FirstFree(b, m, base_sep, p, taken, 1)
        candidate ==
            IF ~collides THEN p
            ELSE IF found # 0 THEN SpiralCandidate(b, m, base_sep, p, found)
            ELSE IF HasObj(room, key)
                 THEN ClampWith(b, m, [xk |-> "num", x |-> ObjOf(room, key).x,
                                       yk |-> "num", y |-> ObjOf(room, key).y])
                 ELSE p
    IN  ClampWith(b, m, candidate)

RECURSIVE Spread(_, _, _, _, _)
Spread(D, room, b, rest, taken) ==
    IF Len(rest) = 0 THEN D
    ELSE LET i   == rest[1]
             key == KeyOf(D[i])
             c   == PlaceOne(b, room, Pt(D[i]), key, taken)
         IN  Spread([D EXCEPT ![i] = SetPt(D[i], c)], room, b, Tail(rest),
                    Append(taken, [pt |-> c, md |-> BaseSep(room, key)]))

(***************************************************************************)
(* _normalize_and_spread_transformations (lines 892-1092)                  *)
(* result: the dicts after the in-place writes, the returned list, and     *)
(* whether the call raised                                                 *)
(***************************************************************************)
Sanitize(D, T, room, pb) ==
    LET b       == RoomBounds(room, pb)
        cleaned == Cleaned(D, T)
        D1      == CleanAll(D, T)
        col     == CollapseAll(D1, room, cleaned, TypesInOrder(D1, room, cleaned, {}))
        D3      == ClampAll(col.dicts, room, b, cleaned)
    IN  IF Len(T) = 0 \/ Len(cleaned) = 0
        THEN [dicts |-> D1, list |-> << >>, raised |-> FALSE]
        ELSE IF col.raised
        THEN [dicts |-> col.dicts, list |-> << >>, raised |-> TRUE]
        ELSE [dicts |-> Spread(D3, room, b, cleaned, << >>), list |-> cleaned, raised |-> FALSE]

(***************************************************************************)
(* _cap_transformations_for_crowded_scenes (lines 824-890)                 *)
(***************************************************************************)
\* the characters in code-point order, for Python's string comparison
CodeOrder == << " ", "0", "1", "2", "3", "4", "5", "6", "7", "8", "9" >>
                 \o UpperChars \o << "_" >> \o LowerChars

CodePoint(c) == CHOOSE i \in 1..Len(CodeOrder) : CodeOrder[i] = c

\* a < b on strings
RECURSIVE StrLess(_, _)
StrLess(a, b) ==
    IF Len(b) = 0 THEN FALSE
    ELSE IF Len(a) = 0 THEN TRUE
    ELSE IF a[1] # b[1] THEN CodePoint(a[1]) < CodePoint(b[1])
    ELSE StrLess(Tail(a), Tail(b))

\* key (-score(t), str(t.get("object_id", ""))) of a sorts strictly before that of b
CapBefore(a, b) ==
    \/ a.score > b.score
    \/ (a.score = b.score /\ StrLess(a.object_id, b.object_id))

\* no sorting: the proposals stay in the order of the list
CapUnsorted(D, s) == s

\* sorted(...): stable, so among equal keys the earlier element comes first
RECURSIVE CapSorted(_, _)
CapSorted(D, s) ==
    IF Len(s) = 0 THEN << >>
    ELSE LET best == CHOOSE k \in 1..Len(s) :
                        /\ \A j \in 1..Len(s) : ~CapBefore(D[s[j]], D[s[k]])
                        /\ \A j \in 1..(k - 1) : CapBefore(D[s[k]], D[s[j]])
         IN  << s[best] >> \o CapSorted(D, [j \in 1..(Len(s) - 1) |-> IF j < best THEN s[j] ELSE s[j + 1]])

FirstN(s, n) == SubSeq(s, 1, Min2(n, Len(s)))

CapType(D, room, i) == type_by_id(room, LowerStr(StripStr(D[i].object_id)))

CapEligible(D, i) == D[i].is_dict /\ StripStr(D[i].object_id) # << >>

CapTransformations(D, T, room) ==
    IF Len(T) = 0 \/ ~room.present THEN T
    ELSE LET desks  == FilterIdx(T, {i \in Range(T) : CapEligible(D, i) /\ CapType(D, room, i) = "desk"})
             chairs == FilterIdx(T, {i \in Range(T) : CapEligible(D, i) /\ CapType(D, room, i) = "chair"})
             other  == FilterIdx(T, {i \in Range(T) : CapEligible(D, i)
                                        /\ CapType(D, room, i) \notin {"desk", "chair"}})
         IN  other \o FirstN(CapSorted(D, desks), MaxDesks) \o FirstN(CapSorted(D, chairs), MaxChairs)

(***************************************************************************)
(* The archive and its documents                                           *)
(*   entry   : [name, is_dir, data, stamp, method]                         *)
(*   name    : [depth  - number of path components,                        *)
(*              floors - the entry lies in assets/Mesh/Floors/,            *)
(*              rank   - rank of the lower-cased file name in string order,*)
(*              ext    - "usda", "usd", "usdc" or another suffix]          *)
(*   data    : [decodable, matrix, points, blocks]                         *)
(*   block   : [name, uuid, form, ty, moved_by, pos, rk, rot]              *)
(***************************************************************************)
FloorEps == 1            \* + 0.01

IsUsda(e) == e.name.ext \in {"usda", "usd"}
IsUsdc(e) == e.name.ext = "usdc"
IsFloorFile(e) == e.name.floors /\ e.name.ext = "usda"

\* the bytes of the file at usdz_file_path
FileBytes == [state |-> fileState, entries |-> archive]

\* _detect_floor_y (lines 718-751): minimum of the floor documents' translation Y
DetectFloorY(arch, failing) ==
    LET fl == {i \in 1..Len(arch) : IsFloorFile(arch[i])}
        ys == {arch[i].data.matrix.m[4][2] : i \in {j \in fl : arch[j].data.matrix.present}}
    IN  IF failing \/ (\E i \in fl : arch[i].is_dir) \/ ys = {} THEN NoFloor
        ELSE [known |-> TRUE, v |-> SetMin(ys)]

\* one mesh point transformed by the row-major matrix M, projected on X and Z
FloorPoint(M, p) ==
    [x |-> p[1] * M[1][1] + p[2] * M[2][1] + p[3] * M[3][1] + M[4][1],
     z |-> p[1] * M[1][3] + p[2] * M[2][3] + p[3] * M[3][3] + M[4][3]]

\* _detect_floor_bounds_xy (lines 753-822)
DetectFloorBounds(arch, failing) ==
    LET fl  == {i \in 1..Len(arch) :
                    /\ IsFloorFile(arch[i]) /\ arch[i].data.matrix.present
                    /\ Len(arch[i].data.points) > 0}
        pts == UNION {{FloorPoint(arch[i].data.matrix.m, arch[i].data.points[k]) :
                            k \in 1..Len(arch[i].data.points)} : i \in fl}
    IN  IF failing \/ (\E i \in 1..Len(arch) : IsFloorFile(arch[i]) /\ arch[i].is_dir) \/ pts = {}
        THEN NoBounds
        ELSE [known |-> TRUE,
              min_x |-> SetMin({q.x : q \in pts}), max_x |-> SetMax({q.x : q \in pts}),
              min_y |-> SetMin({q.z : q \in pts}), max_y |-> SetMax({q.z : q \in pts})]

(***************************************************************************)
(* _modify_usda_file (lines 497-641), on the located blocks of a document  *)
(***************************************************************************)
\* transform_map key of a dict: str(object_id).strip().lower()
MapKey(d) == LowerStr(StripStr(d.object_id))

\* the keys of transform_map in insertion order
RECURSIVE MapKeys(_, _, _)
MapKeys(D, T, seen) ==
    IF Len(T) = 0 THEN << >>
    ELSE LET key == MapKey(D[T[1]])
         IN  IF key = << >> \/ key \in seen THEN MapKeys(D, Tail(T), seen)
             ELSE << key >> \o MapKeys(D, Tail(T), seen \cup {key})

\* transform_map[key]: the last relocation of the list with that key
MapGet(D, T, key) == T[SetMax({k \in 1..Len(T) : MapKey(D[T[k]]) = key})]

\* the transform key chosen for one block, << >> when none (lines 606-627)
ChosenKey(keys, bl, used) ==
    LET ukey  == LowerStr(bl.uuid)
        lname == LowerStr(bl.name)
        cands == {j \in 1..Len(keys) :
                    /\ keys[j] \notin used
                    /\ (IsSubstr(keys[j], lname) \/ IsSubstr(lname, keys[j]))}
    IN  IF bl.uuid # << >> /\ ukey \in Range(keys) /\ ukey \notin used THEN ukey
        ELSE IF cands # {} THEN keys[SetMin(cands)]
        ELSE << >>

\* planned_mods: [block, trans] pairs, blocks visited in document order
RECURSIVE PlannedMods(_, _, _, _, _)
PlannedMods(D, T, blocks, k, used) ==
    IF k > Len(blocks) THEN << >>
    ELSE LET key == ChosenKey(MapKeys(D, T, {}), blocks[k], used)
         IN  IF key = << >> THEN PlannedMods(D, T, blocks, k + 1, used)
             ELSE << [block |-> k, trans |-> MapGet(D, T, key)] >>
                    \o PlannedMods(D, T, blocks, k + 1, used \cup {key})

\* _generate_transform_line raises: format_num calls int() on nan or inf (matrix form)
WriterRaises(bl, d) == bl.form # "discrete" /\ ~Finite(d)

\* the block after _apply_transform_to_xform wrote relocation i into it
WrittenBlock(bl, d, i, fy) ==
    [bl EXCEPT !.moved_by = i,
               !.pos = Pt(d),
               !.rot = IF d.rk = "num" THEN d.rot ELSE 0,
               !.ty  = IF fy.known THEN Max2(@, fy.v + FloorEps) ELSE @]

ModifyUsda(D, T, blocks, fy) ==
    LET plan == IF MapKeys(D, T, {}) = << >> THEN << >> ELSE PlannedMods(D, T, blocks, 1, {})
        ok   == {n \in 1..Len(plan) : ~WriterRaises(blocks[plan[n].block], D[plan[n].trans])}
    IN  [blocks  |-> [k \in 1..Len(blocks) |->
                        IF \E n \in ok : plan[n].block = k
                        THEN LET n == CHOOSE m \in ok : plan[m].block = k
                             IN  WrittenBlock(blocks[k], D[plan[n].trans], plan[n].trans, fy)
                        ELSE blocks[k]],
         applied |-> Cardinality(ok)]

(***************************************************************************)
(* _apply_transformations (lines 298-495), one action per stage            *)
(***************************************************************************)
Returned(bytes) == [kind |-> "bytes", bytes |-> bytes]
Raised == [kind |-> "error", bytes |-> [state |-> "unreadable", entries |-> << >>]]
NoResult == [kind |-> "none", bytes |-> [state |-> "unreadable", entries |-> << >>]]

\* open(usdz_file_path, "rb").read(): raises when the file cannot be read
ReadOriginal == IF fileState = "unreadable" THEN Raised ELSE Returned(FileBytes)

\* sorted(usda_files, key=lambda p: (len(p.parts), p.name.lower()))
RECURSIVE SortDocs(_, _)
SortDocs(arch, S) ==
    IF S = {} THEN << >>
    ELSE LET first == CHOOSE i \in S : \A j \in S :
                        \/ arch[i].name.depth < arch[j].name.depth
                        \/ (arch[i].name.depth = arch[j].name.depth /\ arch[i].name.rank < arch[j].name.rank)
                        \/ (arch[i].name.depth = arch[j].name.depth /\ arch[i].name.rank = arch[j].name.rank /\ i <= j)
         IN  << first >> \o SortDocs(arch, S \ {first})

\* a first stage without the early return for an empty list
CapStepNoShortcut ==
    /\ pc = "start"
    /\ transformations' = CapTransformations(suggestions, transformations, room_request)
    /\ pc' = "extract"
    /\ UNCHANGED << fileState, archive, room_request, suggestions, sanitizer_input, input_dicts,
                    workdir, floor_y, plan_bounds, docs_left, total_applied, faults, now, result >>
    /\ UNCHANGED docvars
    /\ UNCHANGED retryvars
    /\ UNCHANGED webvars

\* lines 314-325: the list is read, capped, and an empty list returns the file as it is
CapStep ==
    /\ pc = "start"
    /\ \E capped \in {CapTransformations(suggestions, transformations, room_request)} :
           /\ transformations' = capped
           /\ IF Len(capped) = 0
              THEN pc' = "done" /\ result' = ReadOriginal
              ELSE pc' = "extract" /\ result' = result
    /\ UNCHANGED << fileState, archive, room_request, suggestions, sanitizer_input, input_dicts,
                    workdir, floor_y, plan_bounds, docs_left, total_applied, faults, now >>
    /\ UNCHANGED docvars
    /\ UNCHANGED retryvars
    /\ UNCHANGED webvars

\* lines 333-381: validation, extraction, search for the USD documents
ExtractStep ==
    /\ pc = "extract"
    /\ IF fileState # "valid" \/ "extract" \in faults
       THEN pc' = "done" /\ result' = Raised /\ workdir' = workdir
       ELSE /\ workdir' = [i \in {j \in 1..Len(archive) : ~archive[j].is_dir} |-> archive[i].data]
            /\ IF \A i \in 1..Len(archive) : ~IsUsda(archive[i]) /\ ~IsUsdc(archive[i])
               THEN pc' = "done" /\ result' = ReadOriginal
               ELSE pc' = "floor" /\ result' = result
    /\ UNCHANGED << fileState, archive, room_request, suggestions, transformations, sanitizer_input,
                    input_dicts, floor_y, plan_bounds, docs_left, total_applied, faults, now >>
    /\ UNCHANGED docvars
    /\ UNCHANGED retryvars
    /\ UNCHANGED webvars

\* lines 383-387: the floor reference is stored on the optimizer instance
DetectFloorStep ==
    /\ pc = "floor"
    /\ floor_y' = DetectFloorY(archive, "floor" \in faults)
    /\ plan_bounds' = DetectFloorBounds(archive, "floor" \in faults)
    /\ pc' = "sanitize"
    /\ UNCHANGED << fileState, archive, room_request, suggestions, transformations, sanitizer_input,
                    input_dicts, workdir, docs_left, total_applied, faults, now, result >>
    /\ UNCHANGED docvars
    /\ UNCHANGED retryvars
    /\ UNCHANGED webvars

\* line 390: the sanitizer runs outside the try block of Step 3
SanitizeStep ==
    /\ pc = "sanitize"
    /\ \E r \in {Sanitize(suggestions, transformations, room_request, plan_bounds)} :
           /\ sanitizer_input' = transformations
           /\ suggestions' = r.dicts
           /\ transformations' = r.list
           /\ IF r.raised
              THEN pc' = "done" /\ result' = Raised /\ docs_left' = docs_left
              ELSE /\ pc' = "modify" /\ result' = result
                   /\ docs_left' = SortDocs(archive, {i \in 1..Len(archive) : IsUsda(archive[i])})
    /\ UNCHANGED << fileState, archive, room_request, input_dicts, workdir, floor_y, plan_bounds,
                    total_applied, faults, now >>
    /\ UNCHANGED docvars
    /\ UNCHANGED retryvars
    /\ UNCHANGED webvars

\* lines 399-414 and 423-433: one iteration of the loop over the text documents
ModifyDocStep ==
    /\ pc = "modify" /\ Len(docs_left) > 0
    /\ LET e == docs_left[1]
       IN  IF archive[e].is_dir \/ ~workdir[e].decodable
           THEN \* open()/readlines() raises: except -> original, finally -> state cleared
                /\ pc' = "done" /\ result' = ReadOriginal
                /\ floor_y' = NoFloor /\ plan_bounds' = NoBounds
                /\ UNCHANGED << workdir, total_applied, docs_left >>
           ELSE \E m \in {ModifyUsda(suggestions, transformations, workdir[e].blocks, floor_y)} :
                    IF m.applied <= 0
                    THEN /\ docs_left' = Tail(docs_left)
                         /\ UNCHANGED << pc, result, floor_y, plan_bounds, workdir, total_applied >>
                    ELSE IF "write" \in faults
                    THEN /\ pc' = "done" /\ result' = ReadOriginal
                         /\ floor_y' = NoFloor /\ plan_bounds' = NoBounds
                         /\ UNCHANGED << workdir, total_applied, docs_left >>
                    ELSE /\ workdir' = [workdir EXCEPT ![e].blocks = m.blocks]
                         /\ total_applied' = total_applied + m.applied
                         /\ docs_left' = Tail(docs_left)
                         /\ UNCHANGED << pc, result, floor_y, plan_bounds >>
    /\ UNCHANGED << fileState, archive, room_request, suggestions, transformations, sanitizer_input,
                    input_dicts, faults, now >>
    /\ UNCHANGED docvars
    /\ UNCHANGED retryvars
    /\ UNCHANGED webvars

\* lines 416-433: the loop ended; the finally clause clears the instance state
FinishModifyStep ==
    /\ pc = "modify" /\ Len(docs_left) = 0
    /\ floor_y' = NoFloor /\ plan_bounds' = NoBounds
    /\ pc' = "repack"
    /\ UNCHANGED << fileState, archive, room_request, suggestions, transformations, sanitizer_input,
                    input_dicts, workdir, docs_left, total_applied, faults, now, result >>
    /\ UNCHANGED docvars
    /\ UNCHANGED retryvars
    /\ UNCHANGED webvars

\* lines 436-470: the entries written by zip_out.writestr, original order, stored, stamped now
\* (every file of the working directory comes from an original entry, so the second loop adds none)
RECURSIVE Repacked(_, _, _, _)
Repacked(arch, wd, t, i) ==
    IF i > Len(arch) THEN << >>
    ELSE (IF i \in DOMAIN wd
          THEN << [name |-> arch[i].name, is_dir |-> FALSE, data |-> wd[i],
                   stamp |-> t, method |-> "stored"] >>
          ELSE << >>) \o Repacked(arch, wd, t, i + 1)

\* lines 435-495: repackage, validate, return; any error returns the original
RepackStep ==
    /\ pc = "repack"
    /\ pc' = "done"
    /\ result' = IF "repack" \in faults THEN ReadOriginal
                 ELSE Returned([state |-> "valid", entries |-> Repacked(archive, workdir, now, 1)])
    /\ UNCHANGED << fileState, archive, room_request, suggestions, transformations, sanitizer_input,
                    input_dicts, workdir, floor_y, plan_bounds, docs_left, total_applied, faults, now >>
    /\ UNCHANGED docvars
    /\ UNCHANGED retryvars
    /\ UNCHANGED webvars

(***************************************************************************)
(* Inputs                                                                  *)
(***************************************************************************)
\* no call of _modify_usda_file is under way
NoDocument ==
    /\ lines = << >> /\ xform_blocks = << >> /\ planned_mods = << >>
    /\ applied = 0 /\ log = << >>

\* the file ids handed out by uuid.uuid4() (analyze.py line 376)
FileIds == {"f1", "f2"}

\* no request has been received
NoRequests ==
    /\ metadata = [f \in FileIds |-> "absent"]
    /\ optimized = [f \in FileIds |-> "absent"]
    /\ task = [f \in FileIds |-> "none"]
    /\ answer = [f \in FileIds |-> "none"]

\* the caller has made no call yet
NoFirst == [given |-> << >>, dicts |-> << >>, list |-> << >>, result |-> NoResult, applied |-> 0]
FirstCall == attempt = 1 /\ first_call = NoFirst

MaxProps == 2            \* length of the freely enumerated proposal lists
MaxGroup == 7            \* size of the same-type proposal groups

Digits == << "1", "2", "3", "4", "5", "6", "7", "8", "9" >>

Obj(id, type, x, y, l, w) ==
    [id |-> id, type |-> type, x |-> x, y |-> y, length_m |-> l, width_m |-> w]

\* a proposal with finite coordinates
Prop(id, x, y) ==
    [is_dict |-> TRUE, object_id |-> id, has_pos |-> TRUE,
     xk |-> "num", x |-> x, yk |-> "num", y |-> y,
     rk |-> "missing", rot |-> 0, score |-> 0]

BedId == << "U", "1" >>
ChairId == << "U", "2" >>
Chair2Id == << "U", "3" >>
DeskId == << "U", "4" >>
PlantId(n) == << "p", Digits[n] >>
GroupId(n) == << "g", Digits[n] >>

\* a bedroom: a bed, two chairs, a desk and four plants
RoomMain ==
    [present |-> TRUE,
     objects |-> << Obj(BedId, "bed", 100, 100, 200, 160),
                    Obj(ChairId, "Chair", 300, 100, 60, 60),
                    Obj(Chair2Id, "chair", 300, 200, 60, 60),
                    Obj(DeskId, "desk", 100, 300, 120, 60) >>
                 \o [n \in 1..4 |-> Obj(PlantId(n), "plant", 100 * n, 400, 40, 40)]]

\* a single wide desk: the object-derived bounds are narrower than its margin
RoomDesk == [present |-> TRUE, objects |-> << Obj(DeskId, "Desk", 100, 100, 160, 80) >>]

\* two beds in one small room
RoomBeds ==
    [present |-> TRUE,
     objects |-> << Obj(BedId, "bed", 60, 60, 200, 160), Obj(ChairId, "bed", 190, 190, 200, 160) >>]

\* n objects of one type in a row, 1 m apart
RoomGroup(n, type) ==
    [present |-> TRUE, objects |-> [k \in 1..n |-> Obj(GroupId(k), type, 100 * k, 100, 60, 60)]]

Floor(lo, hi) == [known |-> TRUE, min_x |-> lo, max_x |-> hi, min_y |-> lo, max_y |-> hi]

\* the proposals of the freely enumerated lists of the sanitizer
SanProps ==
    { Prop(<< "u", "1" >>, 200, 200),
      [Prop(<< "u", "1" >>, 300, 100) EXCEPT !.rk = "num", !.rot = 90],
      Prop(<< " ", "U", "2", " " >>, 200, 200),
      [Prop(<< "u", "3" >>, 200, 200) EXCEPT !.rk = "bad"],
      Prop(<< "u", "4" >>, 210, 200),
      Prop(<< "z", "z" >>, 200, 200),
      [Prop(<< "u", "2" >>, 200, 0) EXCEPT !.yk = "missing"],
      [Prop(<< "u", "3" >>, 0, 200) EXCEPT !.xk = "missing"],
      [Prop(<< "u", "4" >>, 200, 0) EXCEPT !.yk = "bad"],
      [Prop(<< "u", "1" >>, 0, 200) EXCEPT !.xk = "nan"],
      [Prop(<< "u", "4" >>, 0, 200) EXCEPT !.xk = "inf"],
      [Prop(<< "u", "2" >>, 0, 0) EXCEPT !.has_pos = FALSE],
      Prop(<< " " >>, 200, 200),
      [Prop(<< "u", "1" >>, 200, 200) EXCEPT !.is_dict = FALSE] }

ListsOver(P, n) == UNION {[1..k -> P] : k \in 0..n}

\* n proposals for the n objects of RoomGroup: the first `split` target a, the others b
GroupProps(n, split, a, b) ==
    [k \in 1..n |-> IF k <= split THEN Prop(GroupId(k), a[1], a[2]) ELSE Prop(GroupId(k), b[1], b[2])]

GroupTargets == { << 500, 500 >>, << 501, 500 >>, << 300, 300 >> }

\* the inputs of a direct call of the sanitizer: [dicts, room, bounds]
SanInputs ==
    [dicts : ListsOver(SanProps, MaxProps),
     room : {NoRoom, RoomMain, RoomDesk, RoomBeds},
     bounds : {NoBounds, Floor(0, 250), Floor(0, 1000)}]
    \cup
    { [dicts |-> GroupProps(n, split, << 500, 500 >>, b), room |-> RoomGroup(n, type), bounds |-> pb] :
        n \in 2..MaxGroup, split \in 1..MaxGroup, b \in GroupTargets,
        type \in {"chair", "table"}, pb \in {NoBounds, Floor(0, 1000)} }
    \cup
    { [dicts |-> [GroupProps(4, 4, << 500, 500 >>, << 500, 500 >>) EXCEPT ![3].xk = k],
       room |-> RoomGroup(4, "table"), bounds |-> NoBounds] : k \in {"nan", "inf"} }

(***************************************************************************)
(* A direct call of the sanitizer                                          *)
(***************************************************************************)
Idle(c) ==
    /\ fileState = "valid" /\ archive = << >>
    /\ room_request = c.room
    /\ suggestions = c.dicts /\ input_dicts = c.dicts
    /\ transformations = [i \in 1..Len(c.dicts) |-> i]
    /\ sanitizer_input = << >>
    /\ workdir = << >>
    /\ floor_y = NoFloor /\ plan_bounds = c.bounds
    /\ docs_left = << >> /\ total_applied = 0
    /\ faults = {} /\ now = 1
    /\ result = NoResult
    /\ NoDocument
    /\ FirstCall
    /\ NoRequests

SanInit == pc = "sanitizer" /\ \E c \in SanInputs : Idle(c)

SanitizerCall ==
    /\ pc = "sanitizer"
    /\ \E r \in {Sanitize(suggestions, transformations, room_request, plan_bounds)} :
           /\ sanitizer_input' = transformations
           /\ suggestions' = r.dicts
           /\ transformations' = r.list
           /\ pc' = IF r.raised THEN "sanitizer_raised" ELSE "sanitizer_returned"
    /\ UNCHANGED << fileState, archive, room_request, input_dicts, workdir, floor_y, plan_bounds,
                    docs_left, total_applied, faults, now, result >>
    /\ UNCHANGED docvars
    /\ UNCHANGED retryvars
    /\ UNCHANGED webvars

SanNext == SanitizerCall

SanSpec == SanInit /\ [][SanNext]_vars

(***************************************************************************)
(* One invocation of _apply_transformations                                *)
(***************************************************************************)
Block(name, uuid, form, ty) ==
    [name |-> name, uuid |-> uuid, form |-> form, ty |-> ty, moved_by |-> 0,
     pos |-> [xk |-> "num", x |-> 0, yk |-> "num", y |-> 0], rot |-> 0]

NoMatrix == [present |-> FALSE, m |-> << >>]

\* a row-major matrix without rotation, translation (tx, ty, tz)
Translation(tx, ty, tz) ==
    [present |-> TRUE,
     m |-> << << 1, 0, 0, 0 >>, << 0, 1, 0, 0 >>, << 0, 0, 1, 0 >>, << tx, ty, tz, 1 >> >>]

Doc(blocks) == [decodable |-> TRUE, matrix |-> NoMatrix, points |-> << >>, blocks |-> blocks]
Blob == Doc(<< >>)

Name(depth, floors, rank, ext) == [depth |-> depth, floors |-> floors, rank |-> rank, ext |-> ext]

File(name, data, stamp, method) ==
    [name |-> name, is_dir |-> FALSE, data |-> data, stamp |-> stamp, method |-> method]
Dir(name) == [name |-> name, is_dir |-> TRUE, data |-> Blob, stamp |-> 0, method |-> "stored"]

\* the scene document: a bed and a lamp with discrete operations, a chair with a matrix
RoomDoc ==
    Doc(<< Block(<< "B", "e", "d" >>, << "U", "1" >>, "discrete", 0),
           Block(<< "C", "h", "a", "i", "r" >>, << "u", "2" >>, "matrix", 40),
           Block(<< "L", "a", "m", "p" >>, << >>, "none", 0) >>)

\* a second document holding one more entity
SideDoc == Doc(<< Block(<< "D", "e", "s", "k" >>, << "U", "4" >>, "matrix", 0) >>)

\* a floor mesh of 4 m x 4 m lying 5 cm above the origin
FloorDoc ==
    [decodable |-> TRUE, matrix |-> Translation(0, 5, 0),
     points |-> << << 0, 0, 0 >>, << 400, 0, 0 >>, << 400, 0, 400 >>, << 0, 0, 400 >> >>,
     blocks |-> << >>]

ArchPlain ==
    << Dir(Name(1, FALSE, 1, "")),
       File(Name(1, FALSE, 3, "usda"), RoomDoc, 0, "stored"),
       File(Name(2, FALSE, 4, "png"), Blob, 0, "stored") >>

\* an archive as the repacker itself writes one at time 1
ArchFresh == << File(Name(1, FALSE, 3, "usda"), RoomDoc, 1, "stored") >>

ArchFloor ==
    << File(Name(1, FALSE, 3, "usda"), RoomDoc, 0, "deflated"),
       File(Name(4, TRUE, 2, "usda"), FloorDoc, 0, "stored") >>

\* the second document is not valid UTF-8
ArchBadDoc ==
    << File(Name(1, FALSE, 3, "usda"), RoomDoc, 0, "stored"),
       File(Name(2, FALSE, 5, "usda"), [SideDoc EXCEPT !.decodable = FALSE], 0, "stored") >>

ArchTwoDocs ==
    << File(Name(2, FALSE, 5, "usda"), SideDoc, 0, "stored"),
       File(Name(1, FALSE, 3, "usda"), RoomDoc, 0, "stored"),
       File(Name(1, FALSE, 6, "usdc"), Blob, 0, "stored") >>

ArchNoUsd == << File(Name(1, FALSE, 4, "png"), Blob, 0, "stored") >>

Archives == {ArchPlain, ArchFresh, ArchFloor, ArchBadDoc, ArchTwoDocs, ArchNoUsd}

\* at most one I/O operation of a run fails
FaultChoices == {{}, {"extract"}, {"floor"}, {"write"}, {"repack"}}

\* the proposals of the freely enumerated lists of an invocation
PipeProps ==
    { [Prop(<< "u", "1" >>, 200, 200) EXCEPT !.rk = "num", !.rot = 90],
      Prop(<< "U", "1" >>, 300, 100),
      [Prop(<< "u", "2" >>, 200, 200) EXCEPT !.score = 5],
      [Prop(<< "u", "1" >>, 200, 0) EXCEPT !.yk = "missing"],
      Prop(<< "b", "e", "d" >>, 100, 100),
      Prop(<< "z", "z" >>, 200, 200),
      [Prop(<< "u", "2" >>, 0, 200) EXCEPT !.xk = "nan"] }

\* four proposals for the four plants of RoomMain, the third with x of kind k
PlantProps(k) == [n \in 1..4 |-> [Prop(PlantId(n), 200, 200) EXCEPT !.xk = IF n = 3 THEN k ELSE "num"]]

\* a proposal with an expected_score_improvement
Scored(id, x, y, score) == [Prop(id, x, y) EXCEPT !.score = score]

\* lists with several proposals for the chairs (U2, U3) and the desk (U4) of RoomMain
CrowdedLists ==
    { << Scored(<< "u", "3" >>, 100, 200, 0), Scored(<< "U", "2" >>, 200, 200, 0),
         Scored(<< "u", "4" >>, 300, 200, 2), Scored(<< "z", "z" >>, 200, 300, 0) >>,
      << Scored(<< "u", "3" >>, 100, 200, 5), Scored(<< "u", "2" >>, 200, 200, 5),
         Scored(<< "u", "1" >>, 300, 200, 0) >>,
      << Scored(<< "u", "3" >>, 100, 200, 1), Scored(<< "u", "2" >>, 200, 200, 5),
         Scored(<< "u", "4" >>, 300, 200, 0), Scored(<< "U", "4" >>, 200, 300, 0) >> }

PipeLists ==
    ListsOver(PipeProps, MaxProps) \cup {PlantProps(k) : k \in {"num", "inf", "nan"}}
        \cup CrowdedLists

Init ==
    /\ pc = "start"
    /\ \E D \in PipeLists, room \in {NoRoom, RoomMain} :
          /\ suggestions = D /\ input_dicts = D
          /\ transformations = [i \in 1..Len(D) |-> i]
          /\ room_request = room
    /\ \/ fileState = "valid" /\ archive \in Archives /\ faults \in FaultChoices
       \/ fileState \in {"empty", "notzip", "unreadable"} /\ archive = << >> /\ faults = {}
    /\ sanitizer_input = << >>
    /\ workdir = << >>
    /\ floor_y = NoFloor /\ plan_bounds = NoBounds
    /\ docs_left = << >> /\ total_applied = 0
    /\ now = 1
    /\ result = NoResult
    /\ NoDocument
    /\ FirstCall
    /\ NoRequests

Next ==
    \/ CapStep
    \/ ExtractStep
    \/ DetectFloorStep
    \/ SanitizeStep
    \/ ModifyDocStep
    \/ FinishModifyStep
    \/ RepackStep

Spec == Init /\ [][Next]_vars

(***************************************************************************)
(* A caller that retries: a second call of _apply_transformations with the *)
(* same file and the same suggestions object (lines 88-94, 314)            *)
(***************************************************************************)
\* the dicts of the local list `transformations`, in order
RelocationList == [n \in 1..Len(transformations) |-> suggestions[transformations[n]]]

\* a list that fills the floor of RoomMain: the bed's proposal finds no free place
CrowdedProps ==
    << Prop(<< "z", "z" >>, 300, 200), Prop(<< "b", "e", "d" >>, 100, 200),
       Prop(PlantId(2), 200, 300), Prop(<< "u", "1" >>, 500, 500) >>

RetryLists == ListsOver(PipeProps, 1) \cup {CrowdedProps, PlantProps("num")}

RetryInit ==
    /\ pc = "start"
    /\ \E D \in RetryLists, room \in {NoRoom, RoomMain} :
          /\ suggestions = D /\ input_dicts = D
          /\ transformations = [i \in 1..Len(D) |-> i]
          /\ room_request = room
    /\ \/ fileState = "valid" /\ archive \in Archives /\ faults \in FaultChoices
       \/ fileState \in {"empty", "notzip", "unreadable"} /\ archive = << >> /\ faults = {}
    /\ sanitizer_input = << >>
    /\ workdir = << >>
    /\ floor_y = NoFloor /\ plan_bounds = NoBounds
    /\ docs_left = << >> /\ total_applied = 0
    /\ now = 1
    /\ result = NoResult
    /\ NoDocument
    /\ FirstCall
    /\ NoRequests

\* the first call has ended; the caller calls again with the suggestions object it holds
RetryStep ==
    /\ pc = "done" /\ attempt = 1
    /\ attempt' = 2
    /\ first_call' = [given |-> input_dicts, dicts |-> suggestions, list |-> RelocationList,
                      result |-> result, applied |-> total_applied]
    /\ pc' = "start"
    /\ input_dicts' = suggestions
    /\ transformations' = [i \in 1..Len(suggestions) |-> i]
    /\ sanitizer_input' = << >> /\ workdir' = << >> /\ docs_left' = << >>
    /\ total_applied' = 0 /\ result' = NoResult
    /\ now' = now + 1
    /\ UNCHANGED << fileState, archive, room_request, suggestions, floor_y, plan_bounds, faults >>
    /\ UNCHANGED docvars
    /\ UNCHANGED webvars

RetryNext == Next \/ RetryStep

RetrySpec == RetryInit /\ [][RetryNext]_vars

(***************************************************************************)
(* The routes of analyze.py: analyze_room_with_model (lines 317-440), its  *)
(* background task optimize_model_background (lines 222-311) and           *)
(* get_optimized_model (lines 452-519). A metadata file is written by one  *)
(* open/json.dump without an await in between and is read whole.           *)
(***************************************************************************)
\* the task positions at which the file_id has been sent to the client
HandedOut == {"queued", "processing", "optimizing", "optimized", "saved", "except", "ended"}

\* no call of the optimizer is modelled next to the routes
OptimizerIdle ==
    /\ UNCHANGED << pc, suggestions, transformations, floor_y >>
    /\ UNCHANGED pipevars
    /\ UNCHANGED docvars

\* lines 335-387: the upload is validated, a file_id is drawn and the upload is stored
ReceiveUpload(f) ==
    /\ task[f] = "none"
    /\ task' = [task EXCEPT ![f] = "stored"]
    /\ UNCHANGED << metadata, optimized, answer >>
    /\ OptimizerIdle

\* lines 391-440: analysis and enhancement; then the background task is added and the
\* response carries the file_id (X-File-Id). An exception of the enhancer ends the
\* request without a task and without a file_id.
Respond(f) ==
    /\ task[f] = "stored"
    /\ \E raised \in BOOLEAN : task' = [task EXCEPT ![f] = IF raised THEN "rejected" ELSE "queued"]
    /\ UNCHANGED << metadata, optimized, answer >>
    /\ OptimizerIdle

\* lines 239-253: the task starts; file_path.stat() may raise, otherwise the status
\* "processing" is written
TaskBegin(f) ==
    /\ task[f] = "queued"
    /\ \E raised \in BOOLEAN :
          IF raised
          THEN task' = [task EXCEPT ![f] = "except"] /\ UNCHANGED metadata
          ELSE /\ task' = [task EXCEPT ![f] = "processing"]
               /\ metadata' = [metadata EXCEPT ![f] = "processing"]
    /\ UNCHANGED << optimized, answer >>
    /\ OptimizerIdle

\* lines 256-264: the optimizer is built; without key or package the task records
\* "failed" and returns
BuildOptimizer(f) ==
    /\ task[f] = "processing"
    /\ \E enabled \in BOOLEAN :
          IF enabled
          THEN task' = [task EXCEPT ![f] = "optimizing"] /\ UNCHANGED metadata
          ELSE /\ task' = [task EXCEPT ![f] = "ended"]
               /\ metadata' = [metadata EXCEPT ![f] = "failed"]
    /\ UNCHANGED << optimized, answer >>
    /\ OptimizerIdle

\* lines 269-274: optimize_room_layout returns the bytes or raises
OptimizeReturns(f) ==
    /\ task[f] = "optimizing"
    /\ \E raised \in BOOLEAN : task' = [task EXCEPT ![f] = IF raised THEN "except" ELSE "optimized"]
    /\ UNCHANGED << metadata, optimized, answer >>
    /\ OptimizerIdle

\* lines 279-281: the optimized file is written and closed; a failing write leaves
\* a part of it and raises
SaveOptimized(f) ==
    /\ task[f] = "optimized"
    /\ \E raised \in BOOLEAN :
          /\ optimized' = [optimized EXCEPT ![f] = IF raised THEN "partial" ELSE "written"]
          /\ task' = [task EXCEPT ![f] = IF raised THEN "except" ELSE "saved"]
    /\ UNCHANGED << metadata, answer >>
    /\ OptimizerIdle

\* a task that records "completed" before the optimized file is written
RecordCompletedUnsaved(f) ==
    /\ task[f] = "optimized"
    /\ metadata' = [metadata EXCEPT ![f] = "completed"]
    /\ task' = [task EXCEPT ![f] = "ended"]
    /\ UNCHANGED << optimized, answer >>
    /\ OptimizerIdle

\* lines 287-292: the status "completed" is written with the path of the optimized file
RecordCompleted(f) ==
    /\ task[f] = "saved"
    /\ metadata' = [metadata EXCEPT ![f] = "completed"]
    /\ task' = [task EXCEPT ![f] = "ended"]
    /\ UNCHANGED << optimized, answer >>
    /\ OptimizerIdle

\* lines 299-311: except Exception: the status "failed" is written
RecordFailed(f) ==
    /\ task[f] = "except"
    /\ metadata' = [metadata EXCEPT ![f] = "failed"]
    /\ task' = [task EXCEPT ![f] = "ended"]
    /\ UNCHANGED << optimized, answer >>
    /\ OptimizerIdle

\* lines 454-519: what get_optimized_model answers for a metadata file and an optimized file
Answer(status, file) ==
    CASE status = "absent"     -> "not_found"
      [] status = "processing" -> "processing"
      [] status = "failed"     -> "failed"
      [] status = "completed"  -> IF file = "absent" THEN "file_not_found" ELSE "file"

\* a client that holds the file_id asks for the optimized model
GetOptimizedModel(f) ==
    /\ task[f] \in HandedOut
    /\ answer' = [answer EXCEPT ![f] = Answer(metadata[f], optimized[f])]
    /\ UNCHANGED << metadata, optimized, task >>
    /\ OptimizerIdle

\* the steps of the background task of file_id f
TaskStep(f) ==
    \/ TaskBegin(f)
    \/ BuildOptimizer(f)
    \/ OptimizeReturns(f)
    \/ SaveOptimized(f)
    \/ RecordCompleted(f)
    \/ RecordFailed(f)

WebInit ==
    /\ pc = "serving"
    /\ fileState = "valid" /\ archive = << >> /\ room_request = NoRoom
    /\ suggestions = << >> /\ input_dicts = << >> /\ transformations = << >>
    /\ sanitizer_input = << >> /\ workdir = << >>
    /\ floor_y = NoFloor /\ plan_bounds = NoBounds
    /\ docs_left = << >> /\ total_applied = 0
    /\ faults = {} /\ now = 1
    /\ result = NoResult
    /\ NoDocument
    /\ FirstCall
    /\ NoRequests

WebNext ==
    \E f \in FileIds :
          \/ ReceiveUpload(f)
          \/ Respond(f)
          \/ TaskStep(f)
          \/ GetOptimizedModel(f)

WebSpec == WebInit /\ [][WebNext]_vars

\* a background task that was added runs, and each of its steps ends: the server runs
\* the tasks of a response to their end, and the call of the optimizer returns or raises
WebFairSpec ==
    WebSpec /\ \A f \in FileIds : WF_vars(TaskStep(f))

(***************************************************************************)
(* Numbers and their text (lines 1108-1183)                                *)
(*   A float is [k, neg, ip, fd]: kind "num" with sign, integer part and   *)
(*   the sequence of fraction digits of its decimal text, or kind "nan" /  *)
(*   "inf"; kind "int" is a Python int.  Fraction digits are kept as a     *)
(*   sequence so that values such as 2.50000000001 or 6.1e-17 are exact.   *)
(*   Text is a sequence of one-character strings.                          *)
(***************************************************************************)
DigitChars == << "0", "1", "2", "3", "4", "5", "6", "7", "8", "9" >>

Dec(neg, ip, fd) == [k |-> "num", neg |-> neg, ip |-> ip, fd |-> fd]

\* a Python int (new_rotation_deg defaults to the int 0)
PyInt(n) == [k |-> "int", neg |-> n < 0, ip |-> IF n < 0 THEN -n ELSE n, fd |-> << >>]

NotANumber == [k |-> "nan", neg |-> FALSE, ip |-> 0, fd |-> << >>]
Infinite == [k |-> "inf", neg |-> FALSE, ip |-> 0, fd |-> << >>]

\* float(v) of a fixed-point value in centimetres: v / 100
FromCm(v) ==
    LET a == IF v < 0 THEN -v ELSE v
    IN  Dec(v < 0, a \div 100, << (a % 100) \div 10, a % 10 >>)

\* float(v) of a coordinate of the sanitizer's output
FromCoord(k, v) ==
    IF k = "num" THEN FromCm(v) ELSE IF k = "nan" THEN NotANumber ELSE Infinite

\* the k-th fraction digit, 0 beyond the digits written
FracDigit(d, k) == IF k <= Len(d.fd) THEN d.fd[k] ELSE 0

IsZeroDec(d) == d.ip = 0 /\ \A k \in 1..Len(d.fd) : d.fd[k] = 0

\* val == int(val)
IsWhole(d) == \A k \in 1..Len(d.fd) : d.fd[k] = 0

\* |a| < |b|
AbsLess(a, b) ==
    \/ a.ip < b.ip
    \/ /\ a.ip = b.ip
       /\ \E k \in 1..Max2(Len(a.fd), Len(b.fd)) :
             /\ FracDigit(a, k) < FracDigit(b, k)
             /\ \A j \in 1..(k - 1) : FracDigit(a, j) = FracDigit(b, j)

\* a < b on floats (-0.0 equals 0.0)
DecLess(a, b) ==
    IF IsZeroDec(a) /\ IsZeroDec(b) THEN FALSE
    ELSE IF a.neg /\ ~b.neg THEN TRUE
    ELSE IF ~a.neg /\ b.neg THEN FALSE
    ELSE IF a.neg THEN AbsLess(b, a)
    ELSE AbsLess(a, b)

\* max(a, b) of Python: b only if b > a
PyMax(a, b) == IF DecLess(a, b) THEN b ELSE a

\* the decimal digits of a natural number
RECURSIVE NatText(_)
NatText(n) == IF n < 10 THEN << DigitChars[n + 1] >> ELSE NatText(n \div 10) \o << DigitChars[(n % 10) + 1] >>

DigitsText(ds) == [k \in 1..Len(ds) |-> DigitChars[ds[k] + 1]]

\* s.rstrip(c)
RECURSIVE RStrip(_, _)
RStrip(s, c) ==
    IF Len(s) > 0 /\ s[Len(s)] = c THEN RStrip(SubSeq(s, 1, Len(s) - 1), c) ELSE s

\* the digits ds plus `carry` units in the last place, from the right: [digits, carry]
RECURSIVE AddFrom(_, _, _)
AddFrom(ds, carry, done) ==
    IF Len(ds) = 0 THEN [digits |-> done, carry |-> carry]
    ELSE AddFrom(SubSeq(ds, 1, Len(ds) - 1), (ds[Len(ds)] + carry) \div 10,
                 << (ds[Len(ds)] + carry) % 10 >> \o done)

\* the digit sequence ds plus one unit in its last place
Increment(ds) == AddFrom(ds, 1, << >>)

\* f"{val:.10f}": ten fraction digits, rounded on the eleventh
FixedPrecision == 10

\* the value of the text f"{val:.10f}"
Round10(d) ==
    LET cut == [k \in 1..FixedPrecision |-> FracDigit(d, k)]
        r   == IF FracDigit(d, FixedPrecision + 1) >= 5 THEN Increment(cut)
               ELSE [digits |-> cut, carry |-> 0]
    IN  Dec(d.neg, d.ip + r.carry, r.digits)

FixedPoint(d) ==
    LET r == Round10(d)
    IN  (IF r.neg THEN << "-" >> ELSE << >>) \o NatText(r.ip) \o << "." >> \o DigitsText(r.fd)

\* f"{int(val)}": the sign is lost on -0.0
IntText(d) ==
    (IF d.neg /\ d.ip # 0 THEN << "-" >> ELSE << >>) \o NatText(d.ip)

\* a formatter that strips the zeros and the point and does not put ".0" back
format_num_stripped(d) ==
    IF IsWhole(d) THEN IntText(d) \o << ".", "0" >>
    ELSE RStrip(RStrip(FixedPoint(d), "0"), ".")

\* format_num (lines 1149-1162); int() raises on nan and inf
format_num(d) ==
    IF IsWhole(d) THEN IntText(d) \o << ".", "0" >>
    ELSE LET formatted == RStrip(RStrip(FixedPoint(d), "0"), ".")
         IN  IF "." \notin Range(formatted) THEN formatted \o << ".", "0" >> ELSE formatted

\* the number of zeros between the point and the first non-zero fraction digit
LeadingZeros(d) ==
    IF IsWhole(d) THEN 0
    ELSE SetMin({k \in 1..Len(d.fd) : d.fd[k] # 0}) - 1

\* the fraction digits without trailing zeros
RECURSIVE TrimZeros(_)
TrimZeros(ds) ==
    IF Len(ds) > 0 /\ ds[Len(ds)] = 0 THEN TrimZeros(SubSeq(ds, 1, Len(ds) - 1)) ELSE ds

\* f"{val}" (lines 1130-1134): repr of a float or an int; a float below 1e-4 is
\* written with an exponent
float_repr(d) ==
    LET sign == IF d.neg THEN << "-" >> ELSE << >>
        z    == LeadingZeros(d)
        sig  == TrimZeros(SubSeq(d.fd, z + 1, Len(d.fd)))
        ex   == z + 1
    IN  CASE d.k = "nan" -> << "n", "a", "n" >>
          [] d.k = "inf" -> << "i", "n", "f" >>
          [] d.k = "int" -> IntText(d)
          [] IsWhole(d) -> sign \o NatText(d.ip) \o << ".", "0" >>
          [] d.ip = 0 /\ z >= 4 ->
                sign \o << DigitChars[sig[1] + 1] >>
                     \o (IF Len(sig) > 1 THEN << "." >> \o DigitsText(Tail(sig)) ELSE << >>)
                     \o << "e", "-" >> \o (IF ex < 10 THEN << "0" >> ELSE << >>) \o NatText(ex)
          [] OTHER -> sign \o NatText(d.ip) \o << "." >> \o DigitsText(TrimZeros(d.fd))

(***************************************************************************)
(* A text document, line by line                                           *)
(*   A line is a record of what the code reads off its text: the matches   *)
(*   of the two regular expressions, the counts of parentheses and braces, *)
(*   whether its first non-blank character is "{", its indentation, which  *)
(*   of the transform markers it contains, the numbers on it and the       *)
(*   floats of its first parenthesised group.  Line numbers count from 1.  *)
(*   Three more fields describe the document and are read by no operator   *)
(*   of the code: `id` (the line's number in the document as read, 0 for a *)
(*   line the writer made), `owner` (the entity whose header or body       *)
(*   directly holds the line) and `role` ("def", "header", "open", "body", *)
(*   "op" for a transform-operation declaration, "cont" for a continuation *)
(*   line of one, "close", "new").                                         *)
(***************************************************************************)
Markers ==
    { "xformOpOrder", "xformOp:transform", "xformOp:translate", "xformOp:rotate",
      "xformOp:orient", "xformOp:scale", "matrix4d" }

\* the markers whose presence makes the writer remove a line (lines 1211-1214)
RemovedMarkers ==
    { "xformOpOrder", "xformOp:transform", "xformOp:translate", "xformOp:rotate",
      "xformOp:scale", "matrix4d" }

TextLine(role, owner, indent) ==
    [id |-> 0, role |-> role, owner |-> owner, indent |-> indent,
     def |-> << >>, uuid |-> << >>,
     lp |-> 0, rp |-> 0, lb |-> 0, rb |-> 0, lead_brace |-> FALSE,
     ops |-> {}, nums |-> << >>, group |-> << >>, lits |-> << >>]

\* def_xform_re: ^\s*def\s+Xform\s+"([^"]+)" ; tail is "(" , "{" or ""
DefLine(owner, indent, name, tail) ==
    [TextLine("def", owner, indent) EXCEPT
        !.def = name,
        !.lp = IF tail = "(" THEN 1 ELSE 0,
        !.lb = IF tail = "{" THEN 1 ELSE 0]

\* uuid_re: ^\s*string\s+UUID\s*=\s*"([^"]+)"
UuidLine(role, owner, indent, uuid) == [TextLine(role, owner, indent) EXCEPT !.uuid = uuid]

\* `customData = {` : a brace that does not start the line
DictOpenLine(owner, indent) == [TextLine("header", owner, indent) EXCEPT !.lb = 1]

\* `{` on a line of its own
BraceLine(role, owner, indent) ==
    [TextLine(role, owner, indent) EXCEPT !.lb = 1, !.lead_brace = TRUE]

\* `}`
CloseLine(role, owner, indent) == [TextLine(role, owner, indent) EXCEPT !.rb = 1]

\* `)`
HeaderCloseLine(owner, indent) == [TextLine("header", owner, indent) EXCEPT !.rp = 1]

\* `double3 xformOp:translate = (x, y, z)`
TranslateLine(role, owner, indent, t) ==
    [TextLine(role, owner, indent) EXCEPT
        !.ops = {"xformOp:translate"}, !.lp = 1, !.rp = 1, !.group = t, !.nums = t]

\* `double3 xformOp:rotateXYZ = (rx, ry, rz)`
RotateLine(role, owner, indent, r) ==
    [TextLine(role, owner, indent) EXCEPT
        !.ops = {"xformOp:rotate"}, !.lp = 1, !.rp = 1, !.group = r, !.nums = r]

\* `double3 xformOp:scale = (sx, sy, sz)`
ScaleLine(role, owner, indent, sc) ==
    [TextLine(role, owner, indent) EXCEPT
        !.ops = {"xformOp:scale"}, !.lp = 1, !.rp = 1, !.group = sc, !.nums = sc]

\* `uniform token[] xformOpOrder = ["xformOp:...", ...]` naming the operations in `named`
OrderLine(role, owner, indent, named) ==
    [TextLine(role, owner, indent) EXCEPT !.ops = {"xformOpOrder"} \cup named]

\* `matrix4d xformOp:transform = ( (..), (..), (..), (..) )` on one line; the first
\* parenthesised group "( (a, b, c, d" does not parse as floats
MatrixLine(role, owner, indent, m) ==
    [TextLine(role, owner, indent) EXCEPT
        !.ops = {"xformOp:transform", "matrix4d"}, !.lp = 5, !.rp = 5, !.nums = m]

\* `matrix4d xformOp:transform = ( (a, b, c, d),` : the first line of a matrix
\* written over several lines
MatrixHeadLine(owner, indent, row) ==
    [TextLine("op", owner, indent) EXCEPT
        !.ops = {"xformOp:transform", "matrix4d"}, !.lp = 2, !.rp = 1, !.nums = row]

\* `(e, f, g, h),` and `(tx, ty, tz, 1) )`: the further lines of such a matrix
MatrixRowLine(owner, indent, row, last) ==
    [TextLine("cont", owner, indent) EXCEPT
        !.lp = 1, !.rp = IF last THEN 2 ELSE 1, !.nums = row, !.group = row]

\* `token visibility = "inherited"`: a line of no interest to the writer
PlainLine(role, owner, indent) == TextLine(role, owner, indent)

\* the lines of a document numbered as read
Numbered(raw) == [k \in 1..Len(raw) |-> [raw[k] EXCEPT !.id = k]]

(***************************************************************************)
(* _modify_usda_file: the block locator (lines 540-596)                    *)
(***************************************************************************)
\* sum over lines a..b of count('(') - count(')')
RECURSIVE ParenCount(_, _, _)
ParenCount(ls, a, b) ==
    IF b < a THEN 0 ELSE ParenCount(ls, a, b - 1) + ls[b].lp - ls[b].rp

\* sum over lines a..b of count('{') - count('}')
RECURSIVE BraceCount(_, _, _)
BraceCount(ls, a, b) ==
    IF b < a THEN 0 ELSE BraceCount(ls, a, b - 1) + ls[b].lb - ls[b].rb

\* lines 558-565: the line on which the header's parentheses balance
HeaderEndIdx(ls, d) ==
    LET ends == {j \in (d + 1)..Len(ls) : ParenCount(ls, d, j) <= 0}
    IN  IF ls[d].lp - ls[d].rp > 0 /\ ends # {} THEN SetMin(ends) ELSE d

\* '{' in line and line.lstrip().startswith('{')
StartsBody(l) == l.lb > 0 /\ l.lead_brace

\* lines 567-574: the first line from the header end that starts with "{"; 0 for None
OpenIdx(ls, d) ==
    LET opens == {j \in HeaderEndIdx(ls, d)..Len(ls) : StartsBody(ls[j])}
    IN  IF opens = {} THEN 0 ELSE SetMin(opens)

\* lines 576-586: the line on which the brace count is back at zero; 0 for None
CloseIdx(ls, o) ==
    LET closes == {k \in o..Len(ls) : BraceCount(ls, o, k) = 0}
    IN  IF closes = {} THEN 0 ELSE SetMin(closes)

\* lines 588-594: the first UUID between the def line and the closing line
PrimUuid(ls, d, c) ==
    LET found == {t \in d..c : ls[t].uuid # << >>}
    IN  IF found = {} THEN << >> ELSE ls[SetMin(found)].uuid

\* the def lines for which a block is recorded
LocatedDefs(ls) ==
    {d \in 1..Len(ls) :
        /\ ls[d].def # << >>
        /\ OpenIdx(ls, d) # 0
        /\ CloseIdx(ls, OpenIdx(ls, d)) # 0}

\* line 596: (def_idx, close_idx, xform_name, prim_uuid)
BlockAt(ls, d) ==
    LET c == CloseIdx(ls, OpenIdx(ls, d))
    IN  [start |-> d, end |-> c, name |-> ls[d].def, uuid |-> PrimUuid(ls, d, c)]

XformBlocks(ls) ==
    LET defs == FilterIdx([k \in 1..Len(ls) |-> k], LocatedDefs(ls))
    IN  [n \in 1..Len(defs) |-> BlockAt(ls, defs[n])]

(***************************************************************************)
(* _parse_existing_transform (lines 643-716)                               *)
(***************************************************************************)
One == Dec(FALSE, 1, << >>)
Zero == Dec(FALSE, 0, << >>)

NoExisting ==
    [has_matrix |-> FALSE, has_translate |-> FALSE, has_rotate |-> FALSE, has_scale |-> FALSE,
     scale |-> << One, One, One >>, translate |-> << Zero, Zero, Zero >>]

\* math.sqrt(a**2 + b**2 + c**2) for a row with at most one non-zero component:
\* the absolute value of that component (the documents drawn have such rows only)
RowNorm(a, b, c) ==
    CASE IsZeroDec(b) /\ IsZeroDec(c) -> [a EXCEPT !.neg = FALSE]
      [] IsZeroDec(a) /\ IsZeroDec(c) -> [b EXCEPT !.neg = FALSE]
      [] IsZeroDec(a) /\ IsZeroDec(b) -> [c EXCEPT !.neg = FALSE]

\* lines 660-687: a line holding both markers of a matrix
ParseMatrix(ex, l) ==
    IF {"xformOp:transform", "matrix4d"} \subseteq l.ops
    THEN LET v  == l.nums
             sc == << RowNorm(v[1], v[2], v[3]), RowNorm(v[5], v[6], v[7]),
                      RowNorm(v[9], v[10], v[11]) >>
         IN  IF Len(v) >= 16
             THEN [ex EXCEPT !.has_matrix = TRUE,
                             !.scale = IF \A k \in 1..3 : ~IsZeroDec(sc[k]) THEN sc ELSE @,
                             !.translate = << v[13], v[14], v[15] >>]
             ELSE [ex EXCEPT !.has_matrix = TRUE]
    ELSE ex

\* lines 690-699
ParseTranslate(ex, l) ==
    IF "xformOp:translate" \in l.ops
    THEN [ex EXCEPT !.has_translate = TRUE,
                    !.translate = IF Len(l.group) >= 3 THEN SubSeq(l.group, 1, 3) ELSE @]
    ELSE ex

\* lines 700-701
ParseRotate(ex, l) ==
    IF "xformOp:rotate" \in l.ops \/ "xformOp:orient" \in l.ops
    THEN [ex EXCEPT !.has_rotate = TRUE] ELSE ex

\* lines 702-713
ParseScale(ex, l) ==
    IF "xformOp:scale" \in l.ops
    THEN [ex EXCEPT !.has_scale = TRUE,
                    !.scale = IF Len(l.group) >= 3 THEN SubSeq(l.group, 1, 3) ELSE @]
    ELSE ex

\* the loop over lines start_idx .. min(end_idx, last line)
RECURSIVE ParseFrom(_, _, _, _)
ParseFrom(ex, ls, i, e) ==
    IF i > e \/ i > Len(ls) THEN ex
    ELSE ParseFrom(ParseScale(ParseRotate(ParseTranslate(ParseMatrix(ex, ls[i]), ls[i]), ls[i]), ls[i]),
                   ls, i + 1, e)

parse_existing_transform(ls, start_idx, end_idx) == ParseFrom(NoExisting, ls, start_idx, end_idx)

(***************************************************************************)
(* _generate_transform_line (lines 1094-1183)                              *)
(***************************************************************************)
\* float(floor_y) + 0.01 for a floor level of v centimetres; the binary sum of
\* 0.05 and 0.01 is 0.060000000000000005
FloorPlusEps(v) ==
    IF v = 5 THEN Dec(FALSE, 0, << 0, 6, 0, 0, 0, 0, 0, 0, 0, 0, 0, 0, 0, 0, 0, 0, 0, 5 >>)
    ELSE FromCm(v + FloorEps)

\* transform.get("new_rotation_deg", 0): the float the sanitizer stored, or the int 0
NewRotDeg(d) ==
    IF d.rk = "num" THEN Dec(d.rot < 0, IF d.rot < 0 THEN -d.rot ELSE d.rot, << >>)
    ELSE PyInt(0)

\* the residual of cos and sin at a multiple of 90 degrees: 6.123233995736766e-17 * n
Residual(neg, n) ==
    Dec(neg, 0, [k \in 1..16 |-> 0] \o
                (CASE n = 1 -> << 6, 1, 2, 3 >>
                   [] n = 2 -> << 1, 2, 2, 4, 6 >>
                   [] n = 3 -> << 1, 8, 3, 6, 9 >>))

\* math.cos(math.radians(deg)) for the angles drawn
Cos(deg) ==
    CASE deg = 0   -> One
      [] deg = 90  -> Residual(FALSE, 1)
      [] deg = 180 -> Dec(TRUE, 1, << >>)
      [] deg = 270 -> Residual(TRUE, 3)
      [] deg = 45  -> Dec(FALSE, 0, << 7, 0, 7, 1, 0, 6, 7, 8, 1, 1, 8, 6, 5, 4, 7, 6 >>)

\* math.sin(math.radians(deg)) for the angles drawn
Sin(deg) ==
    CASE deg = 0   -> Zero
      [] deg = 90  -> One
      [] deg = 180 -> Residual(FALSE, 2)
      [] deg = 270 -> Dec(TRUE, 1, << >>)
      [] deg = 45  -> Dec(FALSE, 0, << 7, 0, 7, 1, 0, 6, 7, 8, 1, 1, 8, 6, 5, 4, 7, 5 >>)

\* the digits ds times n, from the right: [digits, carry]
RECURSIVE TimesFrom(_, _, _, _)
TimesFrom(ds, n, carry, done) ==
    IF Len(ds) = 0 THEN [digits |-> done, carry |-> carry]
    ELSE TimesFrom(SubSeq(ds, 1, Len(ds) - 1), n, (ds[Len(ds)] * n + carry) \div 10,
                   << (ds[Len(ds)] * n + carry) % 10 >> \o done)

TimesDigits(ds, n) == TimesFrom(ds, n, 0, << >>)

\* s * d for a whole scale factor s (row norms and default scales are whole here)
Times(s, d) ==
    CASE IsWhole(s) ->
        LET r == TimesDigits(d.fd, s.ip)
        IN  Dec(s.neg # d.neg, d.ip * s.ip + r.carry, r.digits)

Neg(d) == [d EXCEPT !.neg = ~@]

\* one emitted literal: the float and its text
Literal(val, text) == [val |-> val, text |-> text]

\* the textual constants `0` and `0.0`, `1.0` of the templates
BareZero == Literal(PyInt(0), << "0" >>)
ZeroPointZero == Literal(Zero, << "0", ".", "0" >>)
OnePointZero == Literal(One, << "1", ".", "0" >>)

ReprOf(v) == Literal(v, float_repr(v))
FormatOf(v) == Literal(v, format_num(v))

\* a line made by the writer holding the literals `ls`; the numbers a later
\* parse reads off it are the values of the texts
NewLine(owner, ops, literals, fixed) ==
    LET read == [k \in 1..Len(literals) |->
                    IF fixed /\ literals[k].val.k = "num" THEN Round10(literals[k].val)
                    ELSE literals[k].val]
    IN  [TextLine("new", owner, 0) EXCEPT
            !.ops = ops, !.lp = IF fixed THEN 5 ELSE 1, !.rp = IF fixed THEN 5 ELSE 1,
            !.nums = read, !.group = IF fixed THEN << >> ELSE read,
            !.lits = literals]

\* lines 1108-1116: the vertical coordinate
Vertical(existing, fy) ==
    IF fy.known THEN PyMax(existing.translate[2], FloorPlusEps(fy.v)) ELSE existing.translate[2]

UsesSeparate(existing) == existing.has_translate \/ existing.has_rotate \/ existing.has_scale

\* lines 1149-1162: int(val) raises on nan and inf
GenerateRaises(d, existing) == ~UsesSeparate(existing) /\ ~Finite(d)

\* lines 1126-1135: the discrete form
SeparateLines(owner, d, existing, fy) ==
    LET x == FromCoord(d.xk, d.x)
        z == FromCoord(d.yk, d.y)
        y == Vertical(existing, fy)
    IN  << NewLine(owner, {"xformOp:translate"}, << ReprOf(x), ReprOf(y), ReprOf(z) >>, FALSE),
           NewLine(owner, {"xformOp:rotate"}, << BareZero, BareZero, ReprOf(NewRotDeg(d)) >>, FALSE) >>
        \o (IF existing.has_scale
            THEN << NewLine(owner, {"xformOp:scale"},
                            << ReprOf(existing.scale[1]), ReprOf(existing.scale[2]),
                               ReprOf(existing.scale[3]) >>, FALSE) >>
            ELSE << >>)

\* lines 1138-1183: the matrix form, rotation about Y
MatrixLines(owner, d, existing, fy) ==
    LET x   == FromCoord(d.xk, d.x)
        z   == FromCoord(d.yk, d.y)
        y   == Vertical(existing, fy)
        deg == IF d.rk = "num" THEN d.rot ELSE 0
        sx  == existing.scale[1]
        sy  == existing.scale[2]
        sz  == existing.scale[3]
        m00 == FormatOf(Times(sx, Cos(deg)))
        m02 == FormatOf(Times(Neg(sx), Sin(deg)))
        m11 == FormatOf(sy)
        m20 == FormatOf(Times(sz, Sin(deg)))
        m22 == FormatOf(Times(sz, Cos(deg)))
    IN  << NewLine(owner, {"xformOp:transform", "matrix4d"},
                   << m00, ZeroPointZero, m02, ZeroPointZero,
                      ZeroPointZero, m11, ZeroPointZero, ZeroPointZero,
                      m20, ZeroPointZero, m22, ZeroPointZero,
                      FormatOf(x), FormatOf(y), FormatOf(z), OnePointZero >>, TRUE) >>

generate_transform_line(owner, d, existing, fy) ==
    IF UsesSeparate(existing) THEN SeparateLines(owner, d, existing, fy)
    ELSE MatrixLines(owner, d, existing, fy)

(***************************************************************************)
(* _apply_transform_to_xform (lines 1185-1290)                             *)
(***************************************************************************)
\* lines 1209-1216: the lines of start_idx .. end_idx holding a transform marker
LinesToRemove(ls, start_idx, end_idx) ==
    {i \in start_idx..Min2(end_idx, Len(ls)) : ls[i].ops \cap RemovedMarkers # {}}

\* lines 1218-1223: the document without those lines
Without(ls, gone) == FilterIdx([k \in 1..Len(ls) |-> k], (1..Len(ls)) \ gone)

\* lines 1236-1245: the first line of the block that starts with "{"; 0 when none
BraceSearch(ls, start_idx, end_idx) ==
    LET found == {i \in start_idx..Min2(end_idx, Len(ls)) : StartsBody(ls[i])}
    IN  IF found = {} THEN 0 ELSE SetMin(found)

\* lines 1259-1270: the xformOpOrder line naming the operations of the new lines
OpOrderLine(owner, new) ==
    LET named == UNION {new[k].ops : k \in 1..Len(new)}
    IN  [TextLine("new", owner, 0) EXCEPT
            !.ops = {"xformOpOrder"} \cup
                    (IF "matrix4d" \in named \/ "xformOp:transform" \in named
                     THEN {"xformOp:transform"}
                     ELSE named \cap {"xformOp:translate", "xformOp:rotate", "xformOp:scale"})]

\* the whole rewrite of one block; `kept` maps the lines left after the removal to
\* their numbers before it, `insert_after` counts the lines before the new ones
apply_transform_to_xform(ls, start_idx, end_idx, d, fy) ==
    LET owner    == ls[start_idx].owner
        existing == parse_existing_transform(ls, start_idx, end_idx)
        gone     == LinesToRemove(ls, start_idx, end_idx)
        kept     == Without(ls, gone)
        ls1      == [k \in 1..Len(kept) |-> ls[kept[k]]]
        end1     == end_idx - Cardinality(gone)
        brace    == BraceSearch(ls1, start_idx, end1)
        at       == IF brace # 0 THEN brace ELSE Max2(0, Min2(end1 - 1, Len(ls1)))
        indent   == IF brace # 0 THEN ls1[brace].indent + 4 ELSE 4
        made     == generate_transform_line(owner, d, existing, fy)
        new      == [k \in 1..(Len(made) + 1) |->
                        [(IF k = 1 THEN OpOrderLine(owner, made) ELSE made[k - 1])
                            EXCEPT !.indent = indent]]
    IN  IF GenerateRaises(d, existing)
        THEN [raised |-> TRUE, after |-> ls, existing |-> existing, removed |-> {},
              insert_after |-> 0, new |-> << >>]
        ELSE [raised |-> FALSE,
              after |-> SubSeq(ls1, 1, at) \o new \o SubSeq(ls1, at + 1, Len(ls1)),
              existing |-> existing, removed |-> gone, insert_after |-> at, new |-> new]

(***************************************************************************)
(* _modify_usda_file (lines 497-641), one action per stage                 *)
(***************************************************************************)
Reverse(s) == [k \in 1..Len(s) |-> s[Len(s) + 1 - k]]

\* lines 516-605: read, build transform_map, locate the blocks, plan the edits; the plan
\* is held in the order of line 634 (sorted by def_idx, reverse=True)
LocateStep ==
    /\ pc = "doc_read"
    /\ \E blocks \in {XformBlocks(lines)} :
       \E plan \in {PlannedMods(suggestions, transformations, blocks, 1, {})} :
          IF MapKeys(suggestions, transformations, {}) = << >>
          THEN pc' = "doc_done" /\ UNCHANGED << xform_blocks, planned_mods >>
          ELSE /\ xform_blocks' = blocks
               /\ planned_mods' =
                     Reverse([n \in 1..Len(plan) |->
                                 [start |-> blocks[plan[n].block].start,
                                  end   |-> blocks[plan[n].block].end,
                                  name  |-> blocks[plan[n].block].name,
                                  trans |-> plan[n].trans]])
               /\ pc' = IF Len(plan) = 0 THEN "doc_done" ELSE "doc_apply"
    /\ UNCHANGED << lines, applied, log, suggestions, transformations, floor_y >>
    /\ UNCHANGED pipevars
    /\ UNCHANGED webvars

\* lines 632-641: one iteration of the loop over the planned edits; an exception of the
\* writer is logged and the block is not counted
ApplyXformStep ==
    /\ pc = "doc_apply" /\ Len(planned_mods) > 0
    /\ \E r \in {apply_transform_to_xform(lines, planned_mods[1].start, planned_mods[1].end,
                                          suggestions[planned_mods[1].trans], floor_y)} :
          /\ lines' = r.after
          /\ applied' = IF r.raised THEN applied ELSE applied + 1
          /\ log' = Append(log, [start |-> planned_mods[1].start, end |-> planned_mods[1].end,
                                 trans |-> planned_mods[1].trans,
                                 before |-> lines, after |-> r.after, raised |-> r.raised,
                                 existing |-> r.existing, removed |-> r.removed,
                                 insert_after |-> r.insert_after, new |-> r.new,
                                 floor |-> floor_y])
    /\ planned_mods' = Tail(planned_mods)
    /\ pc' = IF Len(planned_mods) = 1 THEN "doc_done" ELSE "doc_apply"
    /\ UNCHANGED << xform_blocks, suggestions, transformations, floor_y >>
    /\ UNCHANGED pipevars
    /\ UNCHANGED webvars

(***************************************************************************)
(* One call of _modify_usda_file: documents, relocations, floor levels     *)
(***************************************************************************)
MaxDocProps == 2         \* length of the relocation lists of a call

BedName == << "B", "e", "d" >>
ChairName == << "C", "h", "a", "i", "r" >>
LampName == << "L", "a", "m", "p" >>
LegName == << "L", "e", "g" >>

Frac(ip, fd) == Dec(FALSE, ip, fd)

\* existing vertical translations: 0.4, 1, 2.5, 2.50000000001, 0.99999999999,
\* 0.00000000001, 0.00005 and -0.4
Verticals ==
    { Frac(0, << 4 >>), One, Frac(2, << 5 >>),
      Frac(2, << 5, 0, 0, 0, 0, 0, 0, 0, 0, 0, 1 >>),
      Frac(0, << 9, 9, 9, 9, 9, 9, 9, 9, 9, 9, 9 >>),
      Frac(0, << 0, 0, 0, 0, 0, 0, 0, 0, 0, 0, 1 >>),
      Frac(0, << 0, 0, 0, 0, 5 >>),
      Dec(TRUE, 0, << 4 >>) }

Whole(n) == Dec(n < 0, IF n < 0 THEN -n ELSE n, << >>)

\* a metadata header of five lines holding the entity's UUID
Header(owner, indent, uuid) ==
    << DictOpenLine(owner, indent + 4),
       UuidLine("header", owner, indent + 8, uuid),
       CloseLine("header", owner, indent + 4),
       HeaderCloseLine(owner, indent) >>

\* the 16 numbers of a matrix of scale s and translation (1, v, 2), either
\* unrotated or turned by 90 degrees about the vertical axis
Matrix16(s, v, turned) ==
    (IF turned
     THEN << Zero, Zero, Whole(-s), Zero,  Zero, Whole(s), Zero, Zero,  Whole(s), Zero, Zero, Zero >>
     ELSE << Whole(s), Zero, Zero, Zero,  Zero, Whole(s), Zero, Zero,  Zero, Zero, Whole(s), Zero >>)
    \o << One, v, Whole(2), One >>

\* a bed with discrete operations, turned by r degrees, and a lamp without header
\* whose transform is a matrix
DocDiscrete(v, r) ==
    Numbered(<< DefLine(1, 0, BedName, "(") >> \o Header(1, 0, BedId) \o
             << BraceLine("open", 1, 0),
                TranslateLine("op", 1, 4, << Zero, v, Zero >>),
                RotateLine("op", 1, 4, << Zero, Whole(r), Zero >>),
                OrderLine("op", 1, 4, {"xformOp:translate", "xformOp:rotate"}),
                PlainLine("body", 1, 4),
                CloseLine("close", 1, 0),
                DefLine(2, 0, LampName, ""),
                BraceLine("open", 2, 0),
                MatrixLine("op", 2, 4, Matrix16(1, v, FALSE)),
                OrderLine("op", 2, 4, {"xformOp:transform"}),
                CloseLine("close", 2, 0) >>)

\* a chair whose transform is a matrix on one line
DocMatrix(v, s, turned) ==
    Numbered(<< DefLine(1, 0, ChairName, "(") >> \o Header(1, 0, << "u", "2" >>) \o
             << BraceLine("open", 1, 0),
                MatrixLine("op", 1, 4, Matrix16(s, v, turned)),
                OrderLine("op", 1, 4, {"xformOp:transform"}),
                PlainLine("body", 1, 4),
                CloseLine("close", 1, 0) >>)

\* a bed at height 0.4 holding a nested entity at height 0.9
DocNested ==
    Numbered(<< DefLine(1, 0, BedName, "(") >> \o Header(1, 0, BedId) \o
             << BraceLine("open", 1, 0),
                TranslateLine("op", 1, 4, << Zero, Frac(0, << 4 >>), Zero >>),
                OrderLine("op", 1, 4, {"xformOp:translate"}),
                DefLine(2, 4, LegName, ""),
                BraceLine("open", 2, 4),
                TranslateLine("op", 2, 8, << Frac(0, << 1 >>), Frac(0, << 9 >>), Frac(0, << 1 >>) >>),
                OrderLine("op", 2, 8, {"xformOp:translate"}),
                CloseLine("close", 2, 4),
                CloseLine("close", 1, 0) >>)

\* a bed whose header writes the brace of customData on a line of its own
DocHeaderBrace ==
    Numbered(<< DefLine(1, 0, BedName, "("),
                PlainLine("header", 1, 4),
                BraceLine("header", 1, 4),
                UuidLine("header", 1, 8, BedId),
                CloseLine("header", 1, 4),
                HeaderCloseLine(1, 0),
                BraceLine("open", 1, 0),
                TranslateLine("op", 1, 4, << Zero, Frac(0, << 4 >>), Zero >>),
                OrderLine("op", 1, 4, {"xformOp:translate"}),
                CloseLine("close", 1, 0) >>)

\* a chair whose matrix is written over four lines
DocMultiLine ==
    Numbered(<< DefLine(1, 0, ChairName, "(") >> \o Header(1, 0, << "u", "2" >>) \o
             << BraceLine("open", 1, 0),
                MatrixHeadLine(1, 4, << One, Zero, Zero, Zero >>),
                MatrixRowLine(1, 8, << Zero, One, Zero, Zero >>, FALSE),
                MatrixRowLine(1, 8, << Zero, Zero, One, Zero >>, FALSE),
                MatrixRowLine(1, 8, << One, Frac(0, << 4 >>), Whole(2), One >>, TRUE),
                OrderLine("op", 1, 4, {"xformOp:transform"}),
                CloseLine("close", 1, 0) >>)

\* a lamp whose body opens on the def line, followed by a bed
DocInline ==
    Numbered(<< [DefLine(1, 0, LampName, "{") EXCEPT !.role = "defopen"],
                TranslateLine("op", 1, 4, << One, Frac(0, << 9 >>), One >>),
                OrderLine("op", 1, 4, {"xformOp:translate"}),
                CloseLine("close", 1, 0),
                DefLine(2, 0, BedName, "(") >> \o Header(2, 0, BedId) \o
             << BraceLine("open", 2, 0),
                TranslateLine("op", 2, 4, << Zero, Frac(0, << 4 >>), Zero >>),
                OrderLine("op", 2, 4, {"xformOp:translate"}),
                CloseLine("close", 2, 0) >>)

\* a chair followed by a lamp whose first declaration stands on the line of the
\* body's opening brace: `{ double3 xformOp:translate = (1, 0.9, 1)`
DocBraceDecl ==
    Numbered(<< DefLine(1, 0, ChairName, "(") >> \o Header(1, 0, << "u", "2" >>) \o
             << BraceLine("open", 1, 0),
                TranslateLine("op", 1, 4, << One, Frac(0, << 4 >>), One >>),
                OrderLine("op", 1, 4, {"xformOp:translate"}),
                CloseLine("close", 1, 0),
                DefLine(2, 0, LampName, ""),
                [TranslateLine("open", 2, 0, << One, Frac(0, << 9 >>), One >>)
                    EXCEPT !.lb = 1, !.lead_brace = TRUE],
                OrderLine("op", 2, 4, {"xformOp:translate"}),
                CloseLine("close", 2, 0) >>)

\* a bed with discrete operations and a scale of (2, 1.5, 2), and a chair whose
\* one-line matrix is turned and scaled by 2
DocScaled ==
    Numbered(<< DefLine(1, 0, BedName, "(") >> \o Header(1, 0, BedId) \o
             << BraceLine("open", 1, 0),
                TranslateLine("op", 1, 4, << Zero, Frac(0, << 4 >>), Zero >>),
                ScaleLine("op", 1, 4, << Whole(2), Frac(1, << 5 >>), Whole(2) >>),
                OrderLine("op", 1, 4, {"xformOp:translate", "xformOp:scale"}),
                CloseLine("close", 1, 0),
                DefLine(2, 0, ChairName, "(") >> \o Header(2, 0, << "u", "2" >>) \o
             << BraceLine("open", 2, 0),
                MatrixLine("op", 2, 4, Matrix16(2, Frac(0, << 4 >>), TRUE)),
                OrderLine("op", 2, 4, {"xformOp:transform"}),
                CloseLine("close", 2, 0) >>)

\* a chair placed by a matrix, holding a nested entity with a scale of (2, 2, 2)
DocNestedScale ==
    Numbered(<< DefLine(1, 0, ChairName, "(") >> \o Header(1, 0, << "u", "2" >>) \o
             << BraceLine("open", 1, 0),
                MatrixLine("op", 1, 4, Matrix16(1, Frac(0, << 4 >>), FALSE)),
                OrderLine("op", 1, 4, {"xformOp:transform"}),
                DefLine(2, 4, LegName, ""),
                BraceLine("open", 2, 4),
                TranslateLine("op", 2, 8, << Frac(0, << 1 >>), Frac(0, << 9 >>), Frac(0, << 1 >>) >>),
                ScaleLine("op", 2, 8, << Whole(2), Whole(2), Whole(2) >>),
                OrderLine("op", 2, 8, {"xformOp:translate", "xformOp:scale"}),
                CloseLine("close", 2, 4),
                CloseLine("close", 1, 0) >>)

BureauName == << "B", "u", "r", "e", "a", "u", "2" >>

\* the body of an entity with one translation
PlainBody(owner, v) ==
    << BraceLine("open", owner, 0),
       TranslateLine("op", owner, 4, << Zero, v, Zero >>),
       OrderLine("op", owner, 4, {"xformOp:translate"}),
       CloseLine("close", owner, 0) >>

\* a second bureau without UUID, then a chair with UUID u2
DocNameFirst ==
    Numbered(<< DefLine(1, 0, BureauName, "") >> \o PlainBody(1, Frac(0, << 9 >>)) \o
             << DefLine(2, 0, ChairName, "(") >> \o Header(2, 0, << "u", "2" >>) \o
             PlainBody(2, Frac(0, << 4 >>)))

\* the same two entities, the chair first
DocUuidFirst ==
    Numbered(<< DefLine(1, 0, ChairName, "(") >> \o Header(1, 0, << "u", "2" >>) \o
             PlainBody(1, Frac(0, << 4 >>)) \o
             << DefLine(2, 0, BureauName, "") >> \o PlainBody(2, Frac(0, << 9 >>)))

\* a document without entities
DocEmpty == Numbered(<< PlainLine("body", 0, 0) >>)

Documents ==
    {DocDiscrete(v, r) : v \in Verticals, r \in {0, 45}}
        \cup {DocMatrix(v, 1, FALSE) : v \in Verticals}
        \cup {DocMatrix(Frac(0, << 4 >>), s, t) : s \in {1, 2}, t \in BOOLEAN}
        \cup {DocNested, DocHeaderBrace, DocMultiLine, DocInline, DocBraceDecl,
                DocScaled, DocNestedScale, DocNameFirst, DocUuidFirst, DocEmpty}

\* relocations as the sanitizer returns them: finite or not, with or without a rotation
DocProps ==
    { Prop(<< "u", "1" >>, 200, 300),
      [Prop(<< "u", "1" >>, 200, 300) EXCEPT !.rk = "num", !.rot = 90],
      Prop(<< "u", "2" >>, 100, 250),
      [Prop(<< "u", "2" >>, 100, 250) EXCEPT !.rk = "num", !.rot = 180],
      [Prop(<< "l", "a", "m", "p" >>, 150, 50) EXCEPT !.rk = "num", !.rot = 45],
      [Prop(<< "u", "2" >>, 0, 100) EXCEPT !.xk = "inf"],
      [Prop(<< "l", "e", "g" >>, 50, 50) EXCEPT !.rk = "num", !.rot = 270] }

FloorLevels == {NoFloor, [known |-> TRUE, v |-> 5]}

DocInit ==
    /\ pc = "doc_read"
    /\ lines \in Documents
    /\ \E D \in ListsOver(DocProps, MaxDocProps) :
          /\ suggestions = D /\ input_dicts = D
          /\ transformations = [i \in 1..Len(D) |-> i]
    /\ floor_y \in FloorLevels
    /\ xform_blocks = << >> /\ planned_mods = << >> /\ applied = 0 /\ log = << >>
    /\ fileState = "valid" /\ archive = << >> /\ room_request = NoRoom
    /\ sanitizer_input = << >> /\ workdir = << >> /\ plan_bounds = NoBounds
    /\ docs_left = << >> /\ total_applied = 0 /\ faults = {} /\ now = 1
    /\ result = NoResult
    /\ FirstCall
    /\ NoRequests

DocNext == LocateStep \/ ApplyXformStep

DocSpec == DocInit /\ [][DocNext]_vars

(***************************************************************************)
(* Properties of one invocation (specification Spec)                       *)
(***************************************************************************)
\* the sanitizer has been called in this invocation (its input is never empty there)
SanitizerRan == Len(sanitizer_input) > 0

\* the list held by `transformations` is the sanitizer's output
AfterSanitizer == pc \in {"modify", "repack"} \/ (pc = "done" /\ SanitizerRan)

\* a block of the working directory was rewritten with proposal i
AppliedInWorkdir(i) ==
    \E e \in DOMAIN workdir : \E k \in 1..Len(workdir[e].blocks) :
        workdir[e].blocks[k].moved_by = i

\* a block of the returned archive was rewritten with proposal i
AppliedInResult(i) ==
    /\ result.kind = "bytes"
    /\ \E e \in 1..Len(result.bytes.entries) :
          \E k \in 1..Len(result.bytes.entries[e].data.blocks) :
              result.bytes.entries[e].data.blocks[k].moved_by = i

\* C1: an invocation with an empty proposal list returns bytes identical to the
\* input archive, whatever the file holds (a valid archive, an empty file, a file
\* that is no zip), as long as the file can be read at all
C1_EmptyListReturnsInputBytes ==
    (pc = "done" /\ Len(input_dicts) = 0 /\ fileState # "unreadable")
        => result = Returned(FileBytes)

\* an empty list on a valid archive with entries came back as those very bytes
C1_Witness ==
    /\ pc = "done" /\ Len(input_dicts) = 0
    /\ fileState = "valid" /\ archive = ArchPlain
    /\ result.kind = "bytes" /\ result.bytes.entries = ArchPlain

\* C2: every archive an invocation returns is either optimized (at least one
\* relocation was applied to a document) or byte-identical to the input archive
C2_OptimizedOrIdentical ==
    (pc = "done" /\ result.kind = "bytes")
        => (total_applied > 0 \/ result.bytes = FileBytes)

\* C3: once the archive has been extracted, an error of a later stage makes the
\* invocation return the original bytes: no error propagates to the caller, and a
\* failed repackaging yields the input bytes
C3_ErrorAfterExtractionReturnsOriginal ==
    (pc = "done" /\ DOMAIN workdir # {}) =>
        /\ result.kind = "bytes"
        /\ ("repack" \in faults => result.bytes = FileBytes)

\* the names of the entries of an archive, in order, directories included
EntryNames(entries) == [k \in 1..Len(entries) |-> << entries[k].name, entries[k].is_dir >>]

\* C11: the entry list of a returned archive is exactly the entry name list of
\* the original archive, in the original order and under the original names,
\* directory entries included (the working directory never holds a file that
\* is absent from the original list, so nothing is appended)
C11_RepackedEntriesAreOriginalNames ==
    (pc = "done" /\ result.kind = "bytes")
        => EntryNames(result.bytes.entries) = EntryNames(archive)

\* a relocation was applied and the archive was repackaged
C11_Repackaged ==
    /\ pc = "done" /\ result.kind = "bytes" /\ total_applied > 0
    /\ "repack" \notin faults /\ Len(docs_left) = 0 /\ archive = ArchPlain

\* C12: an invocation on a file that is no valid package, is empty or cannot be
\* read ends with an error and without an edit, whatever the proposal list is;
\* the invalid bytes are never returned as a result
C12_InvalidArchiveIsAnError ==
    (pc = "done" /\ fileState # "valid")
        => (result.kind = "error" /\ DOMAIN workdir = {})

\* a non-empty list on a file that is no zip archive ended with an error
C12_InvalidWithProposals ==
    /\ pc = "done" /\ fileState = "notzip" /\ Len(input_dicts) > 0
    /\ result.kind = "error"

\* C23: the floor level and the planar bounds detected by an invocation are
\* cleared from the optimizer instance on every path by which the invocation
\* ends, whether it returns or raises
C23_ScratchStateClearedOnExit ==
    pc = "done" => floor_y = NoFloor /\ plan_bounds = NoBounds

\* an invocation detected a floor, sanitized, returned bytes and left the
\* instance without floor level and bounds
C23_FloorDetectedThenCleared ==
    /\ pc = "done" /\ result.kind = "bytes" /\ SanitizerRan
    /\ DetectFloorY(archive, "floor" \in faults) # NoFloor
    /\ DetectFloorBounds(archive, "floor" \in faults) # NoBounds
    /\ floor_y = NoFloor /\ plan_bounds = NoBounds

\* the entries of a returned archive without their time stamps
RECURSIVE Unstamped(_)
Unstamped(es) ==
    IF es = << >> THEN << >>
    ELSE << [name |-> Head(es).name, data |-> Head(es).data] >> \o Unstamped(Tail(es))

\* two calls ended alike: both raised, or both returned archives of equal content
SameOutcome(r1, r2) ==
    /\ r1.kind = r2.kind
    /\ r1.bytes.state = r2.bytes.state
    /\ Unstamped(r1.bytes.entries) = Unstamped(r2.bytes.entries)

\* C24: a second call with the same archive and the same proposal list, as the
\* first call left it, ends like the first call: the same archive content and
\* the same relocation list.
C24_RetryReturnsSame ==
    pc = "done" /\ attempt = 2 =>
        /\ SameOutcome(result, first_call.result)
        /\ RelocationList = first_call.list

\* C24 witness: a first call rewrote a block, and the retry has ended with the
\* same archive content and the same relocation list
C24_RetriedAfterRelocation ==
    /\ pc = "done" /\ attempt = 2
    /\ first_call.applied > 0 /\ first_call.result.kind = "bytes"
    /\ first_call.dicts # first_call.given
    /\ SameOutcome(result, first_call.result)
    /\ RelocationList = first_call.list

\* analyze.py line 516: the count sent with the optimized model is the length of
\* suggestions["transformations"], the list the optimizer was given (lines 88-99, 314)
ReportedCount == Len(suggestions)

\* the blocks of the returned archive that were rewritten
WrittenBlocks ==
    { << e, k >> \in (1..Len(result.bytes.entries)) \X (1..3) :
         /\ k <= Len(result.bytes.entries[e].data.blocks)
         /\ result.bytes.entries[e].data.blocks[k].moved_by # 0 }

\* C25: the count reported with a returned archive is the number of relocations
\* written into its entity blocks, and is at most the number of sanitized relocations.
C25_CountIsWhatWasApplied ==
    pc = "done" /\ result.kind = "bytes" =>
        /\ ReportedCount = Cardinality(WrittenBlocks)
        /\ (SanitizerRan => ReportedCount <= Len(transformations))

\* C25 witness: an archive was returned with rewritten blocks, after a sanitizer
\* run that dropped a proposal
C25_ReturnedWithRewrittenBlocks ==
    /\ pc = "done" /\ result.kind = "bytes" /\ SanitizerRan
    /\ Cardinality(WrittenBlocks) > 0
    /\ Len(transformations) < Len(sanitizer_input)

\* the list the cap returned
CappedList == IF SanitizerRan THEN sanitizer_input ELSE transformations

\* the proposals of the given list for objects of type ty
ProposalsFor(ty) ==
    {i \in 1..Len(input_dicts) :
        CapEligible(input_dicts, i) /\ CapType(input_dicts, room_request, i) = ty}

\* C28: with a room model, the cap keeps at most one proposal for a desk and at
\* most one for a chair, the one with the highest expected_score_improvement and,
\* among equals, the smallest object_id, and keeps every proposal for an object
\* of another type.
C28_CapKeepsBestDeskAndChair ==
    pc # "start" /\ room_request.present /\ Len(input_dicts) > 0 =>
        \A kept \in {Range(CappedList)}, desks \in {ProposalsFor("desk")},
           chairs \in {ProposalsFor("chair")} :
            /\ \A group \in {desks, chairs} :
                  /\ Cardinality({n \in 1..Len(CappedList) : CappedList[n] \in group}) <= 1
                  /\ \A i \in group \cap kept :
                        \A j \in group : ~CapBefore(input_dicts[j], input_dicts[i])
                  /\ group # {} => group \cap kept # {}
            /\ \A i \in 1..Len(input_dicts) :
                  CapEligible(input_dicts, i) /\ i \notin desks \cup chairs => i \in kept

\* C28 witness: of two chair proposals with equal scores the later one of the list
\* was kept, next to proposals for a desk and for an unknown object, and the list
\* is about to reach the sanitizer
C28_LaterChairKept ==
    /\ pc = "sanitize" /\ room_request.present
    /\ \E i, j \in ProposalsFor("chair") :
          /\ i < j /\ input_dicts[i].score = input_dicts[j].score
          /\ j \in Range(CappedList) /\ i \notin Range(CappedList)
    /\ Cardinality(ProposalsFor("desk") \cup ProposalsFor("")) >= 2

(***************************************************************************)
(* Properties of a call of the sanitizer (specification SanSpec)           *)
(***************************************************************************)
\* the relocation at place k of the returned list
Out(k) == suggestions[transformations[k]]

\* the bounds, the cleaned proposals and their dicts as the call computed them
CallBounds == RoomBounds(room_request, plan_bounds)
CallCleaned == Cleaned(input_dicts, sanitizer_input)
CallDicts == CleanAll(input_dicts, sanitizer_input)

\* the object types of the room model
RoomTypes ==
    IF room_request.present
    THEN {TypeLower(room_request.objects[i].type) : i \in 1..Len(room_request.objects)}
    ELSE {}

\* the cleaned proposals of one type, in list order
GroupOf(typ) == Members(CallDicts, room_request, CallCleaned, typ)

\* the original position of the object of proposal i, moved by dl
OriginalPlus(i, dl) ==
    LET o == ObjOf(room_request, KeyOf(CallDicts[i]))
    IN  [xk |-> "num", x |-> o.x + dl.dx, yk |-> "num", y |-> o.y + dl.dy]

\* the point q lies inside the clamped bounds of proposal i and is not closer than
\* the required separation to any relocation placed before proposal i
Unobstructed(i, q) ==
    LET key == KeyOf(CallDicts[i])
        at  == CHOOSE k \in 1..Len(transformations) : transformations[k] = i
    IN  /\ ClampWith(CallBounds, WallMargin(room_request, key), q) = q
        /\ \A j \in 1..(at - 1) :
              ~Closer(q, Pt(Out(j)),
                      Max2(BaseSep(room_request, key), BaseSep(room_request, KeyOf(Out(j)))))

\* the relocation d sits at the original position of its object
AtOriginal(d) ==
    /\ HasObj(room_request, KeyOf(d)) /\ Finite(d)
    /\ d.x = ObjOf(room_request, KeyOf(d)).x /\ d.y = ObjOf(room_request, KeyOf(d)).y

\* C4: with known planar bounds (floor-derived or object-derived), every relocation
\* the sanitizer returns with finite coordinates lies within
\* [min_x + margin, max_x - margin] x [min_y + margin, max_y - margin], where margin
\* is the wall margin of its object, for every room size and footprint
C4_OutputWithinClampedBounds ==
    (pc = "sanitizer_returned" /\ CallBounds.known) =>
        \A k \in 1..Len(transformations) :
            LET d == Out(k)
                m == WallMargin(room_request, KeyOf(d))
            IN  Finite(d) =>
                    /\ CallBounds.min_x + m <= d.x /\ d.x <= CallBounds.max_x - m
                    /\ CallBounds.min_y + m <= d.y /\ d.y <= CallBounds.max_y - m

\* C5: any two relocations the sanitizer returns for two different objects of the
\* room are at least the required separation apart (the smaller of the two objects'
\* separations is asked here), or one of them sits at the original position of its
\* object
C5_SeparatedOrAtOriginal ==
    pc = "sanitizer_returned" =>
        \A j, k \in 1..Len(transformations) :
            (/\ j < k /\ Finite(Out(j)) /\ Finite(Out(k))
             /\ HasObj(room_request, KeyOf(Out(j))) /\ HasObj(room_request, KeyOf(Out(k)))
             /\ KeyOf(Out(j)) # KeyOf(Out(k))) =>
                LET sep == Min2(BaseSep(room_request, KeyOf(Out(j))),
                                BaseSep(room_request, KeyOf(Out(k))))
                IN  \/ DistSq(Out(j), Out(k)) >= sep * sep
                    \/ AtOriginal(Out(j))
                    \/ AtOriginal(Out(k))

\* C6 as amended: when the proposals of one type are detected as collapsed, every
\* member is in the returned list, and the position the collapse step gives it is
\* its original position plus delta (mean of the proposed targets minus mean of
\* the original positions); the returned position is that point whenever the point
\* lies inside the clamped bounds and keeps the required separation from the
\* relocations placed before it (the clamp and the de-overlap run after the move)
C6_CollapsedGroupMovedByDelta ==
    pc = "sanitizer_returned" =>
        \A typ \in RoomTypes :
            LET ts == GroupOf(typ)
                dl == GroupDelta(CallDicts, room_request, ts)
            IN  GroupCollapses(CallDicts, ts, typ) =>
                    \A i \in Range(ts) :
                        /\ i \in Range(transformations)
                        /\ Unobstructed(i, OriginalPlus(i, dl))
                              => Pt(suggestions[i]) = OriginalPlus(i, dl)

\* seven chairs proposed onto one point of a wide floor came back in their original
\* formation, each away from the proposed point
C6_Witness ==
    /\ pc = "sanitizer_returned" /\ plan_bounds = Floor(0, 1000)
    /\ LET ts == GroupOf("chair")
           dl == GroupDelta(CallDicts, room_request, ts)
       IN  /\ Len(ts) = 7 /\ GroupCollapses(CallDicts, ts, "chair")
           /\ \A i \in Range(ts) :
                 /\ Pt(suggestions[i]) = OriginalPlus(i, dl)
                 /\ Pt(suggestions[i]) # Pt(input_dicts[i])

\* C6 as stated: when the proposals of one type are detected as collapsed, the
\* returned position of every member equals its original position plus delta, and
\* every member is in the returned list
C6_CollapsedOutputIsOriginalPlusDelta ==
    pc = "sanitizer_returned" =>
        \A typ \in RoomTypes :
            LET ts == GroupOf(typ)
                dl == GroupDelta(CallDicts, room_request, ts)
            IN  GroupCollapses(CallDicts, ts, typ) =>
                    \A i \in Range(ts) :
                        /\ i \in Range(transformations)
                        /\ Pt(suggestions[i]) = OriginalPlus(i, dl)

\* the number of distinct target buckets of a group
DistinctTargets(ts) == Cardinality({pos_key(CallDicts[i]) : i \in Range(ts)})

\* the returned positions of a group show whether the group move was made: a member
\* whose point (original plus delta if moved, its own target if not) is unobstructed
\* is returned at that point
GroupOutcome(ts, moved) ==
    \A i \in Range(ts) :
        LET q == IF moved THEN OriginalPlus(i, GroupDelta(CallDicts, room_request, ts))
                 ELSE Pt(CallDicts[i])
        IN  Unobstructed(i, q) => Pt(suggestions[i]) = q

\* C7 as amended: the group move is made for a type exactly when the list holds at
\* least 2 proposals of the type, the type is chair or desk or the list holds at
\* least 4 proposals of it, and the number of distinct target buckets is at most
\* max(1, floor(n / 6)), n being the number of proposals of the type
C7_CollapseCondition ==
    pc = "sanitizer_returned" =>
        \A typ \in RoomTypes :
            LET ts == GroupOf(typ)
                n  == Len(ts)
            IN  (n > 0 /\ \A i \in Range(ts) : Finite(CallDicts[i])) =>
                    GroupOutcome(ts, /\ n >= 2
                                     /\ (typ \in {"chair", "desk"} \/ n >= CollapseMinOther)
                                     /\ DistinctTargets(ts) <= Max2(1, n \div CollapseDivisor))

\* seven tables proposed onto two points: ceil(7/6) = 2 targets, and no group move
\* was made, the first table is returned at its own target
C7_Witness ==
    /\ pc = "sanitizer_returned" /\ plan_bounds = Floor(0, 1000)
    /\ LET ts == GroupOf("table")
       IN  /\ Len(ts) = 7 /\ DistinctTargets(ts) = 2
           /\ ~GroupCollapses(CallDicts, ts, "table")
           /\ Pt(suggestions[ts[1]]) = Pt(input_dicts[ts[1]])
           /\ Pt(suggestions[ts[1]])
                # OriginalPlus(ts[1], GroupDelta(CallDicts, room_request, ts))

\* C7 as stated: the group move is made for a type exactly when the type has at
\* least 4 proposals or is chair or desk, and the number of distinct target buckets
\* is at most ceil(n / 6)
C7_CollapseConditionCeil ==
    pc = "sanitizer_returned" =>
        \A typ \in RoomTypes :
            LET ts == GroupOf(typ)
                n  == Len(ts)
            IN  (n > 0 /\ \A i \in Range(ts) : Finite(CallDicts[i])) =>
                    GroupOutcome(ts, /\ (typ \in {"chair", "desk"} \/ n >= CollapseMinOther)
                                     /\ DistinctTargets(ts)
                                          <= (n + CollapseDivisor - 1) \div CollapseDivisor)

\* a proposal whose new_position lacks the x or the y field
MissingCoordinate(d) == d.is_dict /\ d.has_pos /\ (d.xk = "missing" \/ d.yk = "missing")

\* C8: a proposal whose new_position lacks the y field (or the x field) is not in
\* the list the sanitizer returns, and no block of the working directory or of the
\* returned archive is ever rewritten with it (Spec)
C8_MissingCoordinateDropped ==
    \A i \in 1..Len(input_dicts) :
        MissingCoordinate(input_dicts[i]) =>
            /\ AfterSanitizer => i \notin Range(transformations)
            /\ ~AppliedInWorkdir(i)
            /\ ~AppliedInResult(i)

\* a proposal without y for the bed reached the sanitizer next to a complete
\* proposal; the archive came back optimized, the bed's block written by the
\* complete proposal
C8_Witness ==
    /\ pc = "done" /\ result.kind = "bytes" /\ total_applied > 0
    /\ \E i \in Range(sanitizer_input) :
          /\ MissingCoordinate(input_dicts[i])
          /\ MapKey(input_dicts[i]) = LowerStr(BedId)
          /\ i \notin Range(transformations)
    /\ \E j \in Range(transformations) : AppliedInResult(j)

\* a proposal whose object_id names no object of the room model
UnknownId(d) ==
    d.is_dict /\ ~HasObj(room_request, LowerStr(StripStr(d.object_id)))

\* C9: with a room model, a proposal whose object_id matches none of its objects is
\* not in the list the sanitizer returns and is never applied to a block (Spec)
C9_UnknownIdDropped ==
    room_request.present =>
        \A i \in 1..Len(input_dicts) :
            UnknownId(input_dicts[i]) =>
                /\ AfterSanitizer => i \notin Range(transformations)
                /\ ~AppliedInWorkdir(i)
                /\ ~AppliedInResult(i)

\* C10: the list the sanitizer returns holds at most one relocation per object id
\* (SanSpec)
C10_OneRelocationPerId ==
    pc = "sanitizer_returned" =>
        \A j, k \in 1..Len(transformations) :
            j < k => KeyOf(Out(j)) # KeyOf(Out(k))

(***************************************************************************)
(* Properties of a call of _modify_usda_file (specification DocSpec)       *)
(***************************************************************************)
\* the calls of the writer that rewrote their block
Rewrites == {n \in 1..Len(log) : ~log[n].raised}

\* the document as it was read
SourceLines == IF Len(log) = 0 THEN lines ELSE log[1].before

\* the literals of the lines made by call n whose operations include one of `ops`
LiteralsOf(n, ops) ==
    UNION { Range(log[n].new[k].lits) :
              k \in {j \in 1..Len(log[n].new) : log[n].new[j].ops \cap ops # {}} }

HasPoint(text) == "." \in Range(text)

\* C13: every numeric literal of the lines the writer makes carries a decimal
\* point, in the discrete declarations (translate, rotateXYZ, scale) and in the
\* matrix, for every relocation, with or without a rotation
C13_EveryLiteralHasDecimalPoint ==
    \A n \in Rewrites : \A l \in LiteralsOf(n, Markers) : HasPoint(l.text)

\* a block was rewritten in the discrete form for a relocation without rotation
C13_DiscreteWithoutRotation ==
    \E n \in Rewrites :
        /\ suggestions[log[n].trans].rk = "missing"
        /\ \E k \in 1..Len(log[n].new) : log[n].new[k].ops = {"xformOp:rotate"}

\* the digit a character stands for
DigitOf(c) == CHOOSE v \in 0..9 : DigitChars[v + 1] = c

RECURSIVE NatOf(_)
NatOf(t) == IF Len(t) = 0 THEN 0 ELSE 10 * NatOf(SubSeq(t, 1, Len(t) - 1)) + DigitOf(t[Len(t)])

\* the number a text of the shape [-]digits.digits denotes
TextValue(t) ==
    LET neg   == t[1] = "-"
        point == CHOOSE k \in 1..Len(t) : t[k] = "."
        whole == SubSeq(t, IF neg THEN 2 ELSE 1, point - 1)
        frac  == SubSeq(t, point + 1, Len(t))
    IN  Dec(neg, NatOf(whole), [k \in 1..Len(frac) |-> DigitOf(frac[k])])

SameNumber(a, b) ==
    /\ a.neg = b.neg /\ a.ip = b.ip
    /\ \A k \in 1..Max2(Len(a.fd), Len(b.fd)) : FracDigit(a, k) = FracDigit(b, k)

\* the text is "N.0" for the whole number N
WholeText(val, text) ==
    text = (IF val.neg /\ val.ip # 0 THEN << "-" >> ELSE << >>) \o NatText(val.ip) \o << ".", "0" >>

\* the text is the decimal text of val at ten places, without trailing zeros
\* but with its decimal point
TrimmedText(val, text) ==
    /\ HasPoint(text)
    /\ SameNumber(TextValue(text), Round10(val))
    /\ (text[Len(text)] = "0" => text[Len(text) - 1] = ".")

\* C14: the numeric formatter writes a whole number N as "N.0" and a fractional
\* number as its decimal text at ten places with the trailing zeros trimmed and
\* the decimal point kept; 1 gives "1.0", 2.5 gives "2.5", 2.50000000001 gives
\* "2.5"; every result holds a decimal point, also for a value that rounds to zero
C14_FormatNum ==
    \A n \in Rewrites : \A l \in LiteralsOf(n, {"matrix4d"}) :
        /\ HasPoint(l.text)
        /\ IF \A k \in 1..Len(l.val.fd) : l.val.fd[k] = 0
           THEN WholeText(l.val, l.text)
           ELSE TrimmedText(l.val, l.text)
        /\ (l.val = One => l.text = << "1", ".", "0" >>)
        /\ (l.val = Frac(2, << 5 >>) => l.text = << "2", ".", "5" >>)
        /\ (l.val = Frac(2, << 5, 0, 0, 0, 0, 0, 0, 0, 0, 0, 1 >>) => l.text = << "2", ".", "5" >>)

\* one matrix holds a whole number, 2.50000000001 written as "2.5", and a value
\* that rounds to zero
C14_Witness ==
    \E n \in Rewrites :
        /\ Literal(Frac(2, << 5, 0, 0, 0, 0, 0, 0, 0, 0, 0, 1 >>), << "2", ".", "5" >>)
              \in LiteralsOf(n, {"matrix4d"})
        /\ \E l \in LiteralsOf(n, {"matrix4d"}) :
              ~IsWhole(l.val) /\ SameNumber(Round10(l.val), Zero) /\ l.text = << "0", ".", "0" >>
        /\ \E l \in LiteralsOf(n, {"matrix4d"}) : IsWhole(l.val) /\ l.val.ip = 1

\* the entity a call of the writer is about: the one whose def line starts the block
Target(n) == log[n].before[log[n].start].owner

\* the lines made by call n holding exactly the operations `ops`
MadeLines(n, ops) == {k \in 1..Len(log[n].new) : log[n].new[k].ops = ops}

\* two floats are the same number (0.0 and -0.0 are)
EqualNumber(a, b) ==
    \/ (a.k = "num" /\ b.k = "num" /\ IsZeroDec(a) /\ IsZeroDec(b))
    \/ (a.k \in {"num", "int"} /\ b.k \in {"num", "int"} /\ SameNumber(a, b))
    \/ (a.k = b.k /\ a.k \in {"nan", "inf"})

\* the angle of a relocation in degrees, 0 when it carries none
AngleOf(d) == IF d.rk = "num" THEN d.rot ELSE 0

\* cosine and sine of a multiple of 90 degrees
QuarterCos(deg) == CASE deg = 0 -> 1 [] deg = 90 -> 0 [] deg = 180 -> -1 [] deg = 270 -> 0
QuarterSin(deg) == CASE deg = 0 -> 0 [] deg = 90 -> 1 [] deg = 180 -> 0 [] deg = 270 -> -1

\* the discrete lines place (x, y) on the horizontal axes 1 and 3 and turn by the
\* angle about the vertical axis 2
DiscreteMapping(n) ==
    LET d == suggestions[log[n].trans]
    IN  /\ \A k \in MadeLines(n, {"xformOp:translate"}) :
              /\ EqualNumber(log[n].new[k].group[1], FromCoord(d.xk, d.x))
              /\ EqualNumber(log[n].new[k].group[3], FromCoord(d.yk, d.y))
        /\ \A k \in MadeLines(n, {"xformOp:rotate"}) :
              /\ EqualNumber(log[n].new[k].group[1], Zero)
              /\ EqualNumber(log[n].new[k].group[2], Whole(AngleOf(d)))
              /\ EqualNumber(log[n].new[k].group[3], Zero)

\* the matrix places (x, y) in columns 1 and 3 of its last row, keeps the
\* vertical axis fixed and, for a quarter turn, holds s * (cos, -sin, sin, cos)
MatrixMapping(n) ==
    LET d == suggestions[log[n].trans]
        s == log[n].existing.scale
    IN  \A k \in MadeLines(n, {"xformOp:transform", "matrix4d"}) :
            LET m == log[n].new[k].nums
            IN  /\ EqualNumber(m[13], FromCoord(d.xk, d.x))
                /\ EqualNumber(m[15], FromCoord(d.yk, d.y))
                /\ \A j \in {2, 4, 5, 7, 8, 10, 12} : EqualNumber(m[j], Zero)
                /\ EqualNumber(m[6], s[2])
                /\ AngleOf(d) \in {0, 90, 180, 270} =>
                      /\ EqualNumber(m[1], Whole(s[1].ip * QuarterCos(AngleOf(d))))
                      /\ EqualNumber(m[3], Whole(-s[1].ip * QuarterSin(AngleOf(d))))
                      /\ EqualNumber(m[9], Whole(s[3].ip * QuarterSin(AngleOf(d))))
                      /\ EqualNumber(m[11], Whole(s[3].ip * QuarterCos(AngleOf(d))))

\* C15: the emitted transform carries object-space x on the first horizontal
\* axis, object-space y on the second horizontal axis (never on the vertical one)
\* and the new angle as a rotation about the vertical axis, in the discrete form
\* and in the matrix form alike
C15_HorizontalAxesAndVerticalRotation ==
    \A n \in Rewrites : DiscreteMapping(n) /\ MatrixMapping(n)

\* a quarter turn was written in the matrix form, about the vertical axis
C15_MatrixQuarterTurn ==
    \E n \in Rewrites :
        /\ suggestions[log[n].trans].rk = "num" /\ suggestions[log[n].trans].rot = 180
        /\ MadeLines(n, {"xformOp:transform", "matrix4d"}) # {}
        /\ MatrixMapping(n)

\* the rotation and scale an entity's own declarations encode in document ls:
\* the rotate triple, or the upper three rows of its one-line matrix
OwnRotation(ls, e) ==
    LET own == {k \in 1..Len(ls) : ls[k].owner = e /\ ls[k].role \in {"op", "new"}}
        rot == {k \in own : ls[k].ops = {"xformOp:rotate"}}
        mat == {k \in own : "matrix4d" \in ls[k].ops /\ Len(ls[k].nums) >= 16}
    IN  IF rot # {} THEN ls[SetMin(rot)].group
        ELSE IF mat # {} THEN SubSeq(ls[SetMin(mat)].nums, 1, 12)
        ELSE << Zero, Zero, Zero >>

SameNumbers(a, b) == Len(a) = Len(b) /\ \A k \in 1..Len(a) : EqualNumber(a[k], b[k])

\* C16: a relocation without a rotation leaves the entity's rotation untouched:
\* the rewritten block encodes the rotation the block encoded before
C16_RotationUntouchedWithoutAngle ==
    \A n \in Rewrites :
        suggestions[log[n].trans].rk = "missing" =>
            SameNumbers(OwnRotation(log[n].after, Target(n)), OwnRotation(log[n].before, Target(n)))

\* a turned entity was rewritten for a relocation without rotation
C16_TurnedEntityRelocated ==
    \E n \in Rewrites :
        /\ suggestions[log[n].trans].rk = "missing"
        /\ ~SameNumbers(OwnRotation(log[n].before, Target(n)), << Zero, Zero, Zero >>)
        /\ ~SameNumbers(OwnRotation(log[n].before, Target(n)),
                        << One, Zero, Zero, Zero, Zero, One, Zero, Zero, Zero, Zero, One, Zero >>)

\* the numbers of the declaration starting on line k of ls and of its
\* continuation lines
RECURSIVE DeclarationNums(_, _)
DeclarationNums(ls, k) ==
    ls[k].nums \o (IF k < Len(ls) /\ ls[k + 1].role = "cont"
                   THEN DeclarationNums(ls, k + 1) ELSE << >>)

\* the vertical translation an entity's own declarations encode in document ls
OwnVertical(ls, e) ==
    LET own == {k \in 1..Len(ls) : ls[k].owner = e /\ ls[k].role = "op"}
        tr  == {k \in own : ls[k].ops = {"xformOp:translate"}}
        mat == {k \in own : "matrix4d" \in ls[k].ops}
    IN  IF tr # {} THEN ls[SetMax(tr)].group[2]
        ELSE IF mat # {} THEN DeclarationNums(ls, SetMax(mat))[14]
        ELSE Zero

\* the vertical coordinates call n wrote
EmittedVerticals(n) ==
    {log[n].new[k].lits[2].val : k \in MadeLines(n, {"xformOp:translate"})}
        \cup {log[n].new[k].lits[14].val : k \in MadeLines(n, {"xformOp:transform", "matrix4d"})}

\* the least vertical coordinate allowed over a floor at v centimetres: v/100 + 0.01
FloorLimit(v) == FromCm(v + FloorEps)

\* C17: the vertical coordinate written for a relocated entity is the vertical
\* translation of that entity's own existing transform, raised to the floor level
\* plus epsilon when a floor level is known and the existing value is lower; it is
\* never below that level and never another entity's value
C17_VerticalIsOwnRaisedToFloor ==
    \A n \in Rewrites : \A y \in EmittedVerticals(n) :
        LET own == OwnVertical(log[n].before, Target(n))
            fy  == log[n].floor
        IN  IF fy.known /\ DecLess(own, FloorLimit(fy.v))
            THEN ~DecLess(y, FloorLimit(fy.v)) /\ ~DecLess(FloorPlusEps(fy.v), y)
            ELSE EqualNumber(y, own)

\* an entity lying below a known floor was raised
C17_RaisedToFloor ==
    \E n \in Rewrites : \E y \in EmittedVerticals(n) :
        /\ log[n].floor.known
        /\ DecLess(OwnVertical(log[n].before, Target(n)), FloorLimit(log[n].floor.v))
        /\ ~DecLess(y, FloorLimit(log[n].floor.v))

\* the body-opening line and the closing line of entity e in document ls, 0 when none
BodyOpen(ls, e) ==
    LET o == {k \in 1..Len(ls) : ls[k].owner = e /\ ls[k].role \in {"open", "defopen"}}
    IN  IF o = {} THEN 0 ELSE SetMin(o)

BodyClose(ls, e) ==
    LET c == {k \in 1..Len(ls) : ls[k].owner = e /\ ls[k].role = "close"}
    IN  IF c = {} THEN 0 ELSE SetMax(c)

\* C18: every block the locator records brackets exactly one entity's body: it
\* starts on the body's opening brace found after the header, ends on the line
\* closing that body, and holds no line of the entity's metadata header
C18_BlockBracketsOneBody ==
    \A b \in 1..Len(xform_blocks) :
        LET blk == xform_blocks[b]
            e   == SourceLines[blk.start].owner
        IN  /\ blk.start = BodyOpen(SourceLines, e)
            /\ blk.end = BodyClose(SourceLines, e)
            /\ \A k \in blk.start..blk.end :
                  ~(SourceLines[k].owner = e /\ SourceLines[k].role \in {"def", "header"})

\* the locator recorded the blocks of a document with two entities
C18_BlocksRecorded == Len(xform_blocks) = 2 /\ pc # "doc_read"

\* C19: the writer puts the new declarations immediately after the line holding
\* the opening brace of the entity's body, before any other content of the body,
\* never inside the metadata header and never outside the body
C19_InsertedAfterBodyBrace ==
    \A n \in Rewrites :
        LET at == log[n].insert_after
        IN  /\ at >= 1
            /\ log[n].after[at].owner = Target(n)
            /\ log[n].after[at].role \in {"open", "defopen"}
            /\ \A k \in 1..Len(log[n].new) : log[n].after[at + k] = log[n].new[k]

\* new declarations were put right after the opening brace of a body that
\* follows a header of several lines
C19_InsertedAfterHeader ==
    \E n \in Rewrites :
        /\ log[n].insert_after >= 6
        /\ log[n].after[log[n].insert_after].role = "open"
        /\ log[n].after[log[n].insert_after].owner = Target(n)

\* the lines of entity e's own transform-operation declarations in document ls,
\* continuation lines included
OwnDeclarations(ls, e) ==
    {k \in 1..Len(ls) : ls[k].owner = e /\ ls[k].role \in {"op", "cont"}}

\* the lines of document ls, as the sequence of those not numbered in `gone`
Remaining(ls, gone) ==
    LET kept == FilterIdx([k \in 1..Len(ls) |-> k], (1..Len(ls)) \ gone)
    IN  [k \in 1..Len(kept) |-> ls[kept[k]]]

\* C20: rewriting one block removes exactly the complete transform-operation
\* declarations of that entity's own body and leaves every other line as it
\* was: no header line, no other line, no declaration of another entity and no
\* continuation line is removed or left behind
C20_RemovesExactlyOwnDeclarations ==
    \A n \in Rewrites :
        /\ log[n].removed = OwnDeclarations(log[n].before, Target(n))
        /\ Remaining(log[n].after,
                     (log[n].insert_after + 1)..(log[n].insert_after + Len(log[n].new)))
              = Remaining(log[n].before, log[n].removed)

\* a block with both a translate and a rotate declaration was rewritten
C20_OwnDeclarationsRemoved ==
    \E n \in Rewrites :
        /\ Cardinality(log[n].removed) = 3
        /\ log[n].removed = OwnDeclarations(log[n].before, Target(n))

\* the writer, editing the block of log entry e, finds no line starting with "{"
\* among the lines that are left of the block once the old declarations are removed
BraceLost(e) ==
    LET gone == LinesToRemove(e.before, e.start, e.end)
    IN  BraceSearch(Remaining(e.before, gone), e.start, e.end - Cardinality(gone)) = 0

\* C21: when the opening brace of a block's body cannot be found again by the
\* writer, the lines of that block are left as they were, the block is not
\* counted as applied, and the blocks still planned are processed all the same
C21_LostBraceBlockSkipped ==
    /\ \A n \in 1..Len(log) : BraceLost(log[n]) => log[n].after = log[n].before
    /\ applied <= Cardinality({n \in 1..Len(log) : ~BraceLost(log[n])})
    /\ (pc = "doc_done" => planned_mods = << >>)

\* the writer lost the opening brace of a block and a further block was
\* processed after it
C21_BraceLostThenNextBlock ==
    \E n \in 1..Len(log) : BraceLost(log[n]) /\ n < Len(log)

\* the lines of entity e's own transform-operation declarations in document ls
OwnOps(ls, e) == {k \in 1..Len(ls) : ls[k].owner = e /\ ls[k].ops \cap Markers # {}}

\* entity e's own declarations in ls are discrete translate/rotate/scale operations
OwnDiscrete(ls, e) ==
    \E k \in OwnOps(ls, e) :
        ls[k].ops \cap {"xformOp:translate", "xformOp:rotate", "xformOp:orient", "xformOp:scale"} # {}
        /\ "xformOpOrder" \notin ls[k].ops

\* the lengths of the three basis rows of a matrix given by its numbers
RowLengths(v) ==
    << RowNorm(v[1], v[2], v[3]), RowNorm(v[5], v[6], v[7]), RowNorm(v[9], v[10], v[11]) >>

\* the per-axis scale entity e's own declarations encode in ls: the scale triple,
\* or the lengths of the basis rows of its matrix, or (1, 1, 1)
OwnScale(ls, e) ==
    LET sc  == {k \in OwnOps(ls, e) : ls[k].ops = {"xformOp:scale"}}
        mat == {k \in OwnOps(ls, e) : "matrix4d" \in ls[k].ops}
    IN  IF sc # {} THEN ls[SetMax(sc)].group
        ELSE IF mat # {} THEN RowLengths(DeclarationNums(ls, SetMax(mat)))
        ELSE << One, One, One >>

\* the per-axis scale the lines made by call n encode
MadeScale(n) ==
    LET sc  == MadeLines(n, {"xformOp:scale"})
        mat == MadeLines(n, {"xformOp:transform", "matrix4d"})
    IN  IF sc # {} THEN log[n].new[SetMin(sc)].group
        ELSE IF mat # {} THEN RowLengths(log[n].new[SetMin(mat)].nums)
        ELSE << One, One, One >>

\* C22: the form written follows the block: discrete declarations for a block
\* that used discrete declarations, with a scale declaration only if the block
\* had one, and a single matrix otherwise; in both forms the per-axis scale
\* after the rewrite is the per-axis scale the block encoded before it (the
\* scale of a matrix is compared for turns by a multiple of 90 degrees, whose
\* rows stay along the axes)
C22_FormAndScaleFollowBlock ==
    \A n \in Rewrites :
        LET e   == Target(n)
            old == log[n].before
            mat == MadeLines(n, {"xformOp:transform", "matrix4d"})
            tr  == MadeLines(n, {"xformOp:translate"})
            sc  == MadeLines(n, {"xformOp:scale"})
        IN  /\ IF OwnDiscrete(old, e)
               THEN /\ mat = {} /\ Cardinality(tr) = 1
                    /\ (sc # {}) = (\E k \in OwnOps(old, e) : old[k].ops = {"xformOp:scale"})
               ELSE Cardinality(mat) = 1 /\ tr = {} /\ sc = {}
            /\ (mat = {} \/ AngleOf(suggestions[log[n].trans]) \in {0, 90, 180, 270})
                  => SameNumbers(MadeScale(n), OwnScale(old, e))

\* in one call a block with a scale declaration other than (1, 1, 1) was rewritten
\* in the discrete form with that scale, and a block with a scaled matrix was
\* rewritten as a matrix of the same scale, turned by 180 degrees
C22_ScaledBlocksRewritten ==
    /\ \E n \in Rewrites :
          /\ MadeLines(n, {"xformOp:scale"}) # {}
          /\ ~SameNumbers(OwnScale(log[n].before, Target(n)), << One, One, One >>)
          /\ SameNumbers(MadeScale(n), OwnScale(log[n].before, Target(n)))
    /\ \E n \in Rewrites :
          /\ MadeLines(n, {"xformOp:transform", "matrix4d"}) # {}
          /\ AngleOf(suggestions[log[n].trans]) = 180
          /\ ~SameNumbers(OwnScale(log[n].before, Target(n)), << One, One, One >>)
          /\ SameNumbers(MadeScale(n), OwnScale(log[n].before, Target(n)))

\* the lines of ls around lines a..b
Outside(ls, a, b) == << SubSeq(ls, 1, a - 1), SubSeq(ls, b + 1, Len(ls)) >>

\* C26: edits are applied from the last block to the first, so the recorded
\* [start, end] of every block not yet edited still holds the lines it held when
\* it was recorded, and each edit changes no line outside its own recorded
\* block, nested matched blocks included
C26_RecordedRangesStayValid ==
    /\ \A p \in 1..Len(planned_mods) :
          SubSeq(lines, planned_mods[p].start, planned_mods[p].end)
             = SubSeq(SourceLines, planned_mods[p].start, planned_mods[p].end)
    /\ \A n \in 1..Len(log) :
          /\ SubSeq(log[n].before, log[n].start, log[n].end)
                = SubSeq(SourceLines, log[n].start, log[n].end)
          /\ Outside(log[n].after, log[n].start,
                     log[n].end + Len(log[n].after) - Len(log[n].before))
                = Outside(log[n].before, log[n].start, log[n].end)

\* C26 witness: a block nested inside another matched block was edited, then the
\* block around it
C26_NestedBlocksEdited ==
    /\ pc = "doc_done" /\ Len(log) = 2 /\ Rewrites = {1, 2}
    /\ log[1].start > log[2].start /\ log[1].end < log[2].end

\* C26 companion: two blocks that follow one another were edited, the later first,
\* and the earlier block was found where it was recorded
C26_SiblingBlocksEdited ==
    /\ pc = "doc_done" /\ Len(log) = 2 /\ Rewrites = {1, 2}
    /\ log[1].start > log[2].end
    /\ SubSeq(log[2].before, log[2].start, log[2].end)
          = SubSeq(SourceLines, log[2].start, log[2].end)

\* the located block whose def line is line a
BlockFrom(a) == xform_blocks[CHOOSE b \in 1..Len(xform_blocks) : xform_blocks[b].start = a]

\* the key of the relocation written by call n of the writer
KeyWritten(n) == MapKey(suggestions[log[n].trans])

\* C27: a relocation whose object_id equals, without regard to case, the UUID
\* declared by a block of the document is written into that block, whatever the
\* order of the blocks; no relocation is written into two blocks and no block
\* receives two relocations
C27_UuidMatchBeforeNameMatch ==
    /\ \A n \in 1..Len(log) :
          (\E b \in 1..Len(xform_blocks) : LowerStr(xform_blocks[b].uuid) = KeyWritten(n))
             => LowerStr(BlockFrom(log[n].start).uuid) = KeyWritten(n)
    /\ \A n, k \in 1..Len(log) :
          n # k => log[n].start # log[k].start /\ log[n].trans # log[k].trans

\* C27 witness: a relocation was written into the block declaring its UUID while a
\* block whose name holds the same key was left alone
C27_UuidBlockChosenOverNamedBlock ==
    /\ pc = "doc_done"
    /\ \E n \in Rewrites :
          /\ LowerStr(BlockFrom(log[n].start).uuid) = KeyWritten(n)
          /\ \E b \in 1..Len(xform_blocks) :
                /\ IsSubstr(KeyWritten(n), LowerStr(xform_blocks[b].name))
                /\ \A k \in 1..Len(log) : log[k].start # xform_blocks[b].start

(***************************************************************************)
(* Properties of the routes of analyze.py (specifications WebSpec and      *)
(* WebFairSpec)                                                            *)
(***************************************************************************)
\* C29: for a file_id that was handed out, get_optimized_model answers with the
\* optimized file, with "processing" or with "failed", and never with
\* "Optimization not found", whenever it is asked.
C29_HandedOutIdIsKnown ==
    \A f \in FileIds : answer[f] \in {"none", "file", "processing", "failed"}

\* C29 witness: a client asked while the task was running and was told "processing",
\* and another client got its optimized file
C29_AskedWhileProcessing ==
    \E f, g \in FileIds :
        /\ answer[f] = "processing" /\ task[f] = "optimizing"
        /\ answer[g] = "file"

\* the recorded status of no file_id moves other than from nothing to "processing" or
\* "failed", or from "processing" to "completed" or "failed"
StatusMoves ==
    \A f \in FileIds :
        metadata'[f] # metadata[f] =>
            << metadata[f], metadata'[f] >> \in
                { << "absent", "processing" >>, << "absent", "failed" >>,
                  << "processing", "completed" >>, << "processing", "failed" >> }

\* a recorded "completed" comes after the optimized file was written and closed
CompletedIsSaved == \A f \in FileIds : metadata[f] = "completed" => optimized[f] = "written"

\* the background task of f has started
Started(f) == task[f] \in HandedOut \ {"queued"}

\* C30: the recorded status moves only from "processing" to "completed" or to
\* "failed" and never back, every task that started records one of the two in the
\* end, and whenever "completed" is recorded the optimized file has been written
\* completely.
C30_StatusRunsToFinal ==
    /\ [][StatusMoves]_vars
    /\ []CompletedIsSaved
    /\ \A f \in FileIds : Started(f) ~> (metadata[f] \in {"completed", "failed"})

\* C30 witness: one task recorded "completed" after "processing" with its file
\* written, another recorded "failed" after a write that broke off
C30_CompletedAndFailed ==
    \E f, g \in FileIds :
        /\ metadata[f] = "completed" /\ optimized[f] = "written" /\ task[f] = "ended"
        /\ metadata[g] = "failed" /\ optimized[g] = "partial" /\ task[g] = "ended"

====
